---- MODULE Spec2Model ----
(***************************************************************************)
(* A model of the Monte Carlo project simulator: the CPM scheduler         *)
(* (calculateCPM), the Monte Carlo driver (runMonteCarloSimulation), and   *)
(* the event handlers of the App and TaskForm components.                  *)
(*                                                                         *)
(* Times, lags, durations and costs are integers: every quantity of the    *)
(* model is a whole multiple of one time unit, and the slack tolerance of  *)
(* the source (1e-6) is smaller than that unit, so "|x| < tolerance" is    *)
(* "|x| < 1" here.                                                         *)
(***************************************************************************)
EXTENDS Integers, Sequences, FiniteSets, TLC

VARIABLES
    pc,             \* where control is: "input"/"done" (a calculateCPM call),
                    \* "idle" (the event loop), "loop"/"returned"
                    \* (inside runMonteCarloSimulation / after its return)
    \* ---- calculateCPM
    argTasks,       \* the `tasks` argument of calculateCPM / runMonteCarloSimulation
    runDurations,   \* the `runDurations` argument of the last calculateCPM call
    cpm,            \* the result and locals of the last calculateCPM call
    \* ---- runMonteCarloSimulation (its parameters and locals)
    numRuns, mcI, runCosts, simulationRuns, taskDurationSamples, taskCostSamples,
    allTaskTimings, criticalCounts,
    mcResult,       \* mcI is the loop counter `i`; mcResult is the object runMonteCarloSimulation returned
    \* ---- App component state
    tasks, editingTask, isLoading, error, simulationResults, analysis,
    dependencies,   \* TaskForm's `dependencies` state
    timer,          \* the pending setTimeout callback of runSimulation, if any
    idsUsed,        \* how many task ids handleSubmit has generated
    \* ---- one call of a sampler (randomTriangular, randomNormal, ...)
    sampling,       \* the call, and once it has returned its value and draws
    \* ---- one call of a statistics helper (getPercentiles, ...)
    helperCall      \* the call, and once it has returned its result

cpmVars == <<argTasks, runDurations, cpm>>
mcVars == <<numRuns, mcI, runCosts, simulationRuns, taskDurationSamples,
            taskCostSamples, allTaskTimings, criticalCounts, mcResult>>
appVars == <<tasks, editingTask, isLoading, error, simulationResults, analysis,
             dependencies, timer, idsUsed>>
vars == <<pc, cpmVars, mcVars, appVars, sampling, helperCall>>

(***************************************************************************)
(* Constants of the source.                                                *)
(***************************************************************************)
START == "START"
END == "END"
MIN_SLACK_TOLERANCE == 1
DEPENDENCY_TYPES == {"FS", "SS", "FF", "SF"}

(***************************************************************************)
(* Arithmetic helpers (Math.max, Math.min, Math.abs).                      *)
(***************************************************************************)
Max(a, b) == IF a >= b THEN a ELSE b
Min(a, b) == IF a <= b THEN a ELSE b
Abs(x) == IF x < 0 THEN -x ELSE x

(***************************************************************************)
(* calculateCPM: taskMap and the graph (adj, revAdj, nodes).               *)
(***************************************************************************)
TaskIdsOf(ts) == {ts[k].id : k \in 1..Len(ts)}

\* taskMap[id]: a later task of the same id overwrites an earlier one.
TaskIndex(ts, id) ==
    CHOOSE k \in 1..Len(ts) :
        /\ ts[k].id = id
        /\ \A m \in (k+1)..Len(ts) : ts[m].id # id

\* Math.max(0, taskJ?.duration ?? 0), and 0 for START and END.
NodeDuration(ts, durs, n) ==
    IF n \in TaskIdsOf(ts) THEN Max(0, durs[TaskIndex(ts, n)]) ELSE 0

EmptyGraph(ts) ==
    [adj    |-> [n \in TaskIdsOf(ts) \cup {START} |-> <<>>],
     revAdj |-> [n \in TaskIdsOf(ts) \cup {END} |-> <<>>]]

AddEdge(g, from, to) ==
    [adj    |-> [g.adj EXCEPT ![from] = Append(@, to)],
     revAdj |-> [g.revAdj EXCEPT ![to] = Append(@, from)]]

\* task.dependencies.forEach: an edge for every dependency whose predecessor
\* is a key of adj (a task id or START); any other predecessor id is skipped.
RECURSIVE LinkDependencies(_, _, _)
LinkDependencies(g, task, k) ==
    IF k > Len(task.dependencies) THEN g
    ELSE LET predId == task.dependencies[k].predecessorId
             g1 == IF predId \in DOMAIN g.adj
                   THEN AddEdge(g, predId, task.id)
                   ELSE g
         IN  LinkDependencies(g1, task, k + 1)

\* A variant of LinkTask that adds the implicit START edge only to a task
\* with an empty dependency list.
LinkTask_EmptyListOnly(g, task) ==
    IF Len(task.dependencies) > 0
    THEN LinkDependencies(g, task, 1)
    ELSE AddEdge(g, START, task.id)

\* One iteration of the second tasks.forEach: the task's dependencies, then
\* the implicit START edge when no predecessor other than START was linked.
LinkTask(g, task) ==
    IF Len(task.dependencies) > 0
    THEN LET g1 == LinkDependencies(g, task, 1)
             actualPreds == SelectSeq(g1.revAdj[task.id], LAMBDA p : p # START)
         IN  IF Len(actualPreds) = 0 THEN AddEdge(g1, START, task.id) ELSE g1
    ELSE AddEdge(g, START, task.id)

RECURSIVE LinkTasks(_, _, _)
LinkTasks(g, ts, k) ==
    IF k > Len(ts) THEN g ELSE LinkTasks(LinkTask(g, ts[k]), ts, k + 1)

\* A variant of LinkEnds that links no task to END.
LinkEnds_None(g, ts, k) == g

\* The third tasks.forEach: a task with no successor is linked to END.
RECURSIVE LinkEnds(_, _, _)
LinkEnds(g, ts, k) ==
    IF k > Len(ts) THEN g
    ELSE LET id == ts[k].id
             g1 == IF Len(g.adj[id]) = 0 THEN AddEdge(g, id, END) ELSE g
         IN  LinkEnds(g1, ts, k + 1)

BuildGraph(ts) == LinkEnds(LinkTasks(EmptyGraph(ts), ts, 1), ts, 1)

\* Insertion order of the set `nodes`: START, END, then the task ids.
NodeOrder(ts) == <<START, END>> \o [k \in 1..Len(ts) |-> ts[k].id]

NodesOf(ts) == TaskIdsOf(ts) \cup {START, END}

(***************************************************************************)
(* calculateCPM: Kahn's algorithm.                                         *)
(***************************************************************************)
Occurrences(seq, x) == Cardinality({k \in DOMAIN seq : seq[k] = x})

RECURSIVE SumOccurrences(_, _, _)
SumOccurrences(adj, keys, x) ==
    IF keys = {} THEN 0
    ELSE LET key == CHOOSE n \in keys : TRUE
         IN  Occurrences(adj[key], x) + SumOccurrences(adj, keys \ {key}, x)

\* inDegree after the adj.forEach of lines 247-251: one count per edge.
InDegree(ts, g) == [n \in NodesOf(ts) |-> SumOccurrences(g.adj, DOMAIN g.adj, n)]

\* adj.get(u).forEach(v => ...): decrement, and enqueue v on reaching zero.
RECURSIVE RelaxSuccessors(_, _, _)
RelaxSuccessors(st, succ, k) ==
    IF k > Len(succ) THEN st
    ELSE LET v == succ[k]
             d == st.inDegree[v] - 1
         IN  RelaxSuccessors(
                 [inDegree |-> [st.inDegree EXCEPT ![v] = d],
                  queue    |-> IF d = 0 THEN Append(st.queue, v) ELSE st.queue],
                 succ, k + 1)

RECURSIVE KahnLoop(_, _, _)
KahnLoop(st, topoOrder, adj) ==
    IF Len(st.queue) = 0 THEN topoOrder
    ELSE LET u == Head(st.queue)
             st1 == [st EXCEPT !.queue = Tail(@)]
             st2 == IF u \in DOMAIN adj THEN RelaxSuccessors(st1, adj[u], 1) ELSE st1
         IN  KahnLoop(st2, Append(topoOrder, u), adj)

\* A variant of TopoOrder that visits the tasks in the order of the array.
TopoOrder_ArrayOrder(ts, g) ==
    <<START>> \o [k \in 1..Len(ts) |-> ts[k].id] \o <<END>>

\* A variant of TopoOrder that starts the queue with START alone.
TopoOrder_StartOnly(ts, g) ==
    KahnLoop([inDegree |-> InDegree(ts, g), queue |-> <<START>>], <<>>, g.adj)

TopoOrder(ts, g) ==
    LET inDegree == InDegree(ts, g)
        queue == SelectSeq(NodeOrder(ts), LAMBDA n : inDegree[n] = 0)
    IN  KahnLoop([inDegree |-> inDegree, queue |-> queue], <<>>, g.adj)

(***************************************************************************)
(* calculateCPM: forward pass.                                             *)
(***************************************************************************)
\* The value of `dependency` when find() returns undefined.
NoDependency == [predecessorId |-> "", type |-> "", lag |-> 0]

\* taskJ?.dependencies?.find(d => d.predecessorId === i): the FIRST dependency
\* of task j that names i; undefined when j is no task (END) or none names i.
FindDependency(ts, j, i) ==
    IF j \notin TaskIdsOf(ts) THEN NoDependency
    ELSE LET deps == ts[TaskIndex(ts, j)].dependencies
             hits == {k \in DOMAIN deps : deps[k].predecessorId = i}
         IN  IF hits = {} THEN NoDependency
             ELSE deps[CHOOSE k \in hits : \A m \in hits : k <= m]

\* dependency?.type || 'FS' and dependency?.lag || 0
DepType(dep) == IF dep.type = "" THEN "FS" ELSE dep.type
DepLag(dep) == dep.lag

\* The switch of lines 287-293.
\* A variant of RequiredStart whose FF case leaves the duration out.
RequiredStart_FFNoDuration(depType, lag, esI, efI, durJ) ==
    CASE depType = "FS" -> efI + lag
      [] depType = "SS" -> esI + lag
      [] depType = "FF" -> efI + lag
      [] depType = "SF" -> esI + lag - durJ
      [] OTHER -> efI + lag

\* The switch of lines 287-293.
RequiredStart(depType, lag, esI, efI, durJ) ==
    CASE depType = "FS" -> efI + lag
      [] depType = "SS" -> esI + lag
      [] depType = "FF" -> efI + lag - durJ
      [] depType = "SF" -> esI + lag - durJ
      [] OTHER -> efI + lag

\* A variant of EarliestStartOver in which the last predecessor decides.
RECURSIVE EarliestStartOver_LastWins(_, _, _, _, _, _, _)
EarliestStartOver_LastWins(ts, t, j, durJ, preds, k, earliestStartJ) ==
    IF k > Len(preds) THEN earliestStartJ
    ELSE LET i == preds[k]
             dependency == FindDependency(ts, j, i)
         IN  EarliestStartOver_LastWins(ts, t, j, durJ, preds, k + 1,
                 RequiredStart(DepType(dependency), DepLag(dependency),
                               t.es[i], t.ef[i], durJ))

\* revAdj.get(j).forEach(i => ...), from earliestStartJ = 0.
RECURSIVE EarliestStartOver(_, _, _, _, _, _, _)
EarliestStartOver(ts, t, j, durJ, preds, k, earliestStartJ) ==
    IF k > Len(preds) THEN earliestStartJ
    ELSE LET i == preds[k]
             dependency == FindDependency(ts, j, i)
             requiredStart == RequiredStart(DepType(dependency), DepLag(dependency),
                                            t.es[i], t.ef[i], durJ)
         IN  EarliestStartOver(ts, t, j, durJ, preds, k + 1,
                               Max(earliestStartJ, requiredStart))

\* topoOrder.forEach(j => ...) of the forward pass; t = [es, ef].
RECURSIVE ForwardPass(_, _, _, _, _, _)
ForwardPass(ts, durs, g, topoOrder, k, t) ==
    IF k > Len(topoOrder) THEN t
    ELSE LET j == topoOrder[k]
         IN  IF j = START THEN ForwardPass(ts, durs, g, topoOrder, k + 1, t)
             ELSE LET durJ == NodeDuration(ts, durs, j)
                      earliestStartJ ==
                          EarliestStartOver(ts, t, j, durJ, g.revAdj[j], 1, 0)
                  IN  ForwardPass(ts, durs, g, topoOrder, k + 1,
                          [es |-> [t.es EXCEPT ![j] = earliestStartJ],
                           ef |-> [t.ef EXCEPT ![j] = earliestStartJ + durJ]])

(***************************************************************************)
(* calculateCPM: backward pass.                                            *)
(***************************************************************************)
\* A variant of RequiredFinish whose SS case leaves the duration out.
RequiredFinish_SSNoDuration(depType, lag, lsJ, lfJ, durI) ==
    CASE depType = "FS" -> lsJ - lag
      [] depType = "SS" -> lsJ - lag
      [] depType = "FF" -> lfJ - lag
      [] depType = "SF" -> lfJ - lag + durI
      [] OTHER -> lsJ - lag

\* The switch of lines 322-328.
RequiredFinish(depType, lag, lsJ, lfJ, durI) ==
    CASE depType = "FS" -> lsJ - lag
      [] depType = "SS" -> lsJ - lag + durI
      [] depType = "FF" -> lfJ - lag
      [] depType = "SF" -> lfJ - lag + durI
      [] OTHER -> lsJ - lag

\* adj.get(i).forEach(j => ...), from latestFinishI = totalDuration.
RECURSIVE LatestFinishOver(_, _, _, _, _, _, _)
LatestFinishOver(ts, t, i, durI, succs, k, latestFinishI) ==
    IF k > Len(succs) THEN latestFinishI
    ELSE LET j == succs[k]
             dependency == FindDependency(ts, j, i)
             requiredFinish == RequiredFinish(DepType(dependency), DepLag(dependency),
                                              t.ls[j], t.lf[j], durI)
         IN  LatestFinishOver(ts, t, i, durI, succs, k + 1,
                              Min(latestFinishI, requiredFinish))

\* [...topoOrder].reverse().forEach(i => ...); t = [ls, lf]; k runs downwards.
RECURSIVE BackwardPass(_, _, _, _, _, _, _)
BackwardPass(ts, durs, g, topoOrder, k, totalDuration, t) ==
    IF k < 1 THEN t
    ELSE LET i == topoOrder[k]
         IN  IF i = END
             THEN BackwardPass(ts, durs, g, topoOrder, k - 1, totalDuration, t)
             ELSE LET durI == NodeDuration(ts, durs, i)
                      latestFinishI ==
                          LatestFinishOver(ts, t, i, durI, g.adj[i], 1, totalDuration)
                  IN  BackwardPass(ts, durs, g, topoOrder, k - 1, totalDuration,
                          [ls |-> [t.ls EXCEPT ![i] = latestFinishI - durI],
                           lf |-> [t.lf EXCEPT ![i] = latestFinishI]])

(***************************************************************************)
(* calculateCPM: critical path detection and the result.                   *)
(***************************************************************************)
\* A variant of IsCritical that looks at the slack alone.
IsCritical_SlackOnly(esVal, lsVal, efVal, projectFinish) ==
    Abs(lsVal - esVal) < MIN_SLACK_TOLERANCE

\* The test of lines 348-351 for one task.
IsCritical(esVal, lsVal, efVal, projectFinish) ==
    \/ Abs(lsVal - esVal) < MIN_SLACK_TOLERANCE
    \/ Abs(efVal - projectFinish) < MIN_SLACK_TOLERANCE

CriticalPathTasks(ts, es, ef, ls) ==
    {id \in TaskIdsOf(ts) : IsCritical(es[id], ls[id], ef[id], ef[END])}

\* A variant of TasksAfterCPM that stores the run's duration in the task
\* object it was given.
TasksAfterCPM_InPlace(ts, durs) ==
    [k \in DOMAIN ts |-> [ts[k] EXCEPT !.duration.likely = durs[k]]]

\* The caller's array after the call: taskMap[task.id] = { ...task, index,
\* duration } is a new object, and nothing else is assigned to a task.
TasksAfterCPM(ts, durs) == ts

\* `return null` of line 267.  topoOrder is kept for inspection.
CpmNull(topoOrder) == [isNull |-> TRUE, topoOrder |-> topoOrder]

\* calculateCPM(tasks, runDurations).  The record holds the returned object
\* (totalDuration, criticalPathTasks, taskTimings = es/ef restricted to the
\* tasks) and, beside it, the locals topoOrder, es, ef, ls, lf over all nodes.
calculateCPM(ts, durs) ==
    LET g == BuildGraph(ts)
        topoOrder == TopoOrder(ts, g)
    IN  IF Len(topoOrder) # Cardinality(NodesOf(ts)) THEN CpmNull(topoOrder)
        ELSE LET zero == [n \in NodesOf(ts) |-> 0]
                 fw == ForwardPass(ts, durs, g, topoOrder, 1, [es |-> zero, ef |-> zero])
                 totalDuration == fw.ef[END]
                 total == [n \in NodesOf(ts) |-> totalDuration]
                 bw == BackwardPass(ts, durs, g, topoOrder, Len(topoOrder),
                                    totalDuration, [ls |-> total, lf |-> total])
             IN  [isNull |-> FALSE,
                  topoOrder |-> topoOrder,
                  es |-> fw.es, ef |-> fw.ef, ls |-> bw.ls, lf |-> bw.lf,
                  totalDuration |-> totalDuration,
                  criticalPathTasks |-> CriticalPathTasks(ts, fw.es, fw.ef, bw.ls),
                  taskTimings |-> [id \in TaskIdsOf(ts) |->
                                      [es |-> fw.es[id], ef |-> fw.ef[id]]]]

\* The value of `cpm` before any call.
NoCpm == CpmNull(<<>>)

(***************************************************************************)
(* Tasks and dependencies (the records TaskForm.handleSubmit assembles).   *)
(***************************************************************************)
Dep(predecessorId, type, lag) ==
    [predecessorId |-> predecessorId, type |-> type, lag |-> lag]

\* The distribution and cost parameters of a task.
Params(distType, dmin, dlikely, dmax, mean, stdDev, mu, sigma, cmin, clikely, cmax) ==
    [distType |-> distType,
     duration |-> [min |-> dmin, likely |-> dlikely, max |-> dmax],
     normalParams |-> [mean |-> mean, stdDev |-> stdDev],
     logNormalParams |-> [mu |-> mu, sigma |-> sigma],
     cost |-> [min |-> cmin, likely |-> clikely, max |-> cmax]]

MkTask(id, deps, p) ==
    [id |-> id, dependencies |-> deps,
     distType |-> p.distType, duration |-> p.duration,
     normalParams |-> p.normalParams, logNormalParams |-> p.logNormalParams,
     cost |-> p.cost]

(***************************************************************************)
(* Bounded inputs of calculateCPM.                                         *)
(***************************************************************************)
\* Task ids, in array order; a predecessor id that names no task.
TaskIdPool == <<"A", "B", "C">>
UNKNOWN_ID == "X"
\* Lags (negative: a lead) and sampled durations (negative: a Normal draw).
MaxLag == 2
MaxDuration == 2
Lags == {-MaxLag, 0, MaxLag}
DurationSamples == {-1, 1, MaxDuration}
\* At most MaxDeps dependencies of any type and lag in one task list (enough
\* for a chain or a fork over all tasks), or at most MaxPlainDeps dependencies
\* that are all FS with lag 0 (enough for a ring over all tasks).
MaxDeps == Len(TaskIdPool) - 1
MaxPlainDeps == Len(TaskIdPool)

FixedParams == Params("Triangular", 1, 1, 1, 0, 0, 0, 0, 0, 0, 0)

PoolIds(n) == {TaskIdPool[k] : k \in 1..n}

\* The dependencies task `id` of an n-task list may carry: any type and lag
\* on another task, and FS dependencies on itself, on START and on an
\* unknown id.
AnyDeps(n, id) ==
    {Dep(p, ty, lag) : p \in PoolIds(n) \ {id}, ty \in DEPENDENCY_TYPES, lag \in Lags}
        \cup {Dep(id, "FS", 0), Dep(START, "FS", 0), Dep(START, "FS", MaxLag),
              Dep(UNKNOWN_ID, "FS", 0)}

PlainDeps(n, id) == {Dep(p, "FS", 0) : p \in PoolIds(n) \cup {START, UNKNOWN_ID}}

\* The dependency lists of the first m tasks of an n-task list, with at most
\* `budget` dependencies in total; plain selects PlainDeps.
RECURSIVE DepAssignments(_, _, _, _)
DepAssignments(n, m, budget, plain) ==
    IF m = 0 THEN {<<>>}
    ELSE LET id == TaskIdPool[m]
             choices == IF plain THEN PlainDeps(n, id) ELSE AnyDeps(n, id)
         IN  UNION {{Append(prefix, deps) :
                         prefix \in DepAssignments(n, m - 1, budget - l, plain),
                         deps \in [1..l -> choices]} : l \in 0..budget}

TaskListsWith(n, budget, plain, p) ==
    {[k \in 1..n |-> MkTask(TaskIdPool[k], d[k], p)] :
        d \in DepAssignments(n, n, budget, plain)}

TaskLists(n, budget, plain) == TaskListsWith(n, budget, plain, FixedParams)

CpmInputs ==
    UNION {TaskLists(n, MaxDeps, FALSE) \cup TaskLists(n, MaxPlainDeps, TRUE) :
               n \in 0..Len(TaskIdPool)}

(***************************************************************************)
(* The samplers.  A sampler is modelled by the set of values it can        *)
(* return, on the integer grid of the model.                               *)
(***************************************************************************)
randomTriangular(min, mode, max) ==
    IF max = min THEN {min}
    ELSE IF min < max THEN min..max
    ELSE (2 * max - min)..max

\* Box-Muller is unbounded; the model keeps the draws within one stdDev.
randomNormal(mean, stdDev) ==
    IF stdDev < 0 THEN {mean}
    ELSE IF stdDev = 0 THEN {mean}
    ELSE (mean - stdDev)..(mean + stdDev)

\* Math.exp on the integer grid, rounded; exact at 0.
Exp(x) == IF x < 0 THEN 0 ELSE IF x = 0 THEN 1 ELSE IF x = 1 THEN 3 ELSE 7

randomLogNormal(mu, sigma) ==
    IF sigma < 0 THEN {Exp(mu)}
    ELSE IF sigma = 0 THEN {Exp(mu)}
    ELSE {Exp(x) : x \in randomNormal(mu, sigma)}

randomPERT(min, likely, max) ==
    IF max = min THEN {min}
    ELSE IF max < min \/ likely < min \/ likely > max THEN {likely}
    ELSE min..max

\* The duration runMonteCarloSimulation draws for a task.
SampleDuration(task) ==
    CASE task.distType = "Normal" ->
            randomNormal(task.normalParams.mean, task.normalParams.stdDev)
      [] task.distType = "LogNormal" ->
            randomLogNormal(task.logNormalParams.mu, task.logNormalParams.sigma)
      [] task.distType = "PERT" ->
            randomPERT(task.duration.min, task.duration.likely, task.duration.max)
      [] OTHER ->
            randomTriangular(task.duration.min, task.duration.likely, task.duration.max)

\* A variant of SampleCost that follows the task's distType.
SampleCost_ByDistType(task) ==
    CASE task.distType = "Normal" ->
            randomNormal(task.cost.likely, task.cost.max - task.cost.min)
      [] task.distType = "LogNormal" ->
            randomLogNormal(task.cost.likely, task.cost.max - task.cost.min)
      [] task.distType = "PERT" ->
            randomPERT(task.cost.min, task.cost.likely, task.cost.max)
      [] OTHER ->
            randomTriangular(task.cost.min, task.cost.likely, task.cost.max)

\* The cost runMonteCarloSimulation draws for a task.
SampleCost(task) == randomTriangular(task.cost.min, task.cost.likely, task.cost.max)

(***************************************************************************)
(* One call of a sampler: how it returns (via), the value, and the number  *)
(* of draws it takes from the generator (realZeroToOneExclusive, beta,     *)
(* Math.random).                                                           *)
(***************************************************************************)
\* The default of the parameter gamma of randomPERT.
gamma == 4

\* How often a `while (u === 0)` loop of randomNormal may draw again.
MaxRedraws == 1

Outcomes(via, values, draws) ==
    {[via |-> via, value |-> v, draws |-> d] : v \in values, d \in draws}

randomTriangularCall(min, mode, max) ==
    IF max = min THEN Outcomes("return", {min}, {0})
    ELSE Outcomes("triangular", randomTriangular(min, mode, max), {1})

\* A variant of randomNormalCall without the two guards on stdDev.
randomNormalCall_Unguarded(mean, stdDev) ==
    Outcomes("normal", (mean - Abs(stdDev))..(mean + Abs(stdDev)), 2..(2 + MaxRedraws))

randomNormalCall(mean, stdDev) ==
    IF stdDev < 0 THEN Outcomes("return", {mean}, {0})
    ELSE IF stdDev = 0 THEN Outcomes("return", {mean}, {0})
    ELSE Outcomes("normal", randomNormal(mean, stdDev), 2..(2 + MaxRedraws))

randomLogNormalCall(mu, sigma) ==
    IF sigma < 0 THEN Outcomes("return", {Exp(mu)}, {0})
    ELSE IF sigma = 0 THEN Outcomes("return", {Exp(mu)}, {0})
    ELSE {[o EXCEPT !.value = Exp(@)] : o \in randomNormalCall(mu, sigma)}

\* A fraction <<numerator, denominator>> as JavaScript sees the quotient:
\* finite unless the denominator is 0, positive when both have one sign.
IsFiniteFraction(f) == f[2] # 0
IsPositiveFraction(f) == f[2] # 0 /\ f[1] * f[2] > 0

\* alpha and beta of randomPERT as exact fractions.  mu is kept as
\* muScaled = (gamma + 2) * mu, and so is every difference with mu.
\* unstable is the "falling back to Triangular" return of the else branch.
PertShape(min, likely, max) ==
    LET range == max - min
        clampedLikely == Max(min, Min(likely, max))
        scale == gamma + 2
        muScaled == min + gamma * clampedLikely + max
    IN  IF muScaled = scale * max \/ scale * clampedLikely = muScaled
        THEN [unstable |-> FALSE, alpha |-> <<gamma + 1, 1>>, beta |-> <<1, 1>>]
        ELSE IF muScaled = scale * min
        THEN [unstable |-> FALSE, alpha |-> <<1, 1>>, beta |-> <<gamma + 1, 1>>]
        ELSE LET muMinusMin == muScaled - scale * min
                 maxMinusMu == scale * max - muScaled
                 likelyMinusMu == scale * clampedLikely - muScaled
             IN  IF likelyMinusMu = 0 \/ muMinusMin = 0 \/ range = 0
                 THEN [unstable |-> TRUE, alpha |-> <<0, 0>>, beta |-> <<0, 0>>]
                 ELSE LET alpha == <<muMinusMin * (2 * clampedLikely - min - max),
                                     likelyMinusMu * range>>
                      IN  [unstable |-> FALSE,
                           alpha |-> alpha,
                           beta |-> <<alpha[1] * maxMinusMu, alpha[2] * muMinusMin>>]

randomPERTCall(min, likely, max) ==
    IF max = min THEN Outcomes("return", {min}, {0})
    ELSE IF max < min \/ likely < min \/ likely > max
    THEN Outcomes("return", {likely}, {0})
    ELSE LET shape == PertShape(min, likely, max)
             clampedLikely == Max(min, Min(likely, max))
         IN  IF shape.unstable
             THEN randomTriangularCall(min, clampedLikely, max)
             ELSE IF ~IsFiniteFraction(shape.alpha) \/ ~IsFiniteFraction(shape.beta)
                     \/ ~IsPositiveFraction(shape.alpha) \/ ~IsPositiveFraction(shape.beta)
             THEN randomTriangularCall(min, clampedLikely, max)
             ELSE Outcomes("beta", randomPERT(min, likely, max), {1})

\* x || 1 of helpers.js: 0 and NaN (0/0) become 1.
OrOne(f) == IF f[1] = 0 THEN <<1, 1>> ELSE f

\* alpha and beta of the randomPERT of helpers.js.
helpers_PertShape(min, likely, max) ==
    LET range == max - min
        scale == gamma + 2
        muScaled == min + gamma * likely + max
        v == muScaled - scale * min
        w == scale * max - muScaled
        alpha == OrOne(<<v * (2 * likely - min - max), range * (scale * likely - muScaled)>>)
    IN  [alpha |-> alpha, beta |-> OrOne(<<alpha[1] * w, alpha[2] * v>>)]

\* The randomPERT of helpers.js; its fallback value (min + likely + max) / 3
\* is rounded down to the grid.
helpers_randomPERTCall(min, likely, max) ==
    IF max = min THEN Outcomes("return", {min}, {0})
    ELSE IF max < min \/ likely < min \/ likely > max
    THEN Outcomes("return", {likely}, {0})
    ELSE LET shape == helpers_PertShape(min, likely, max)
         IN  IF ~IsFiniteFraction(shape.alpha) \/ ~IsFiniteFraction(shape.beta)
                \/ ~IsPositiveFraction(shape.alpha) \/ ~IsPositiveFraction(shape.beta)
             THEN Outcomes("mean", {(min + likely + max) \div 3}, {0})
             ELSE Outcomes("beta", min..max, {2})

\* The value of `sampling` when no sampler call is modelled, and a call.
NoSampling ==
    [fn |-> "none", args |-> <<>>, done |-> FALSE, via |-> "", value |-> 0, draws |-> 0]

SamplerCall(fn, args) == [NoSampling EXCEPT !.fn = fn, !.args = args]

(***************************************************************************)
(* The statistics helpers.  Real results are exact fractions               *)
(* <<numerator, denominator>>; NaN is 0/0.                                 *)
(***************************************************************************)
NaN == <<0, 0>>

\* Math.floor and Math.ceil of num / den, den > 0.
Floor(num, den) == num \div den
Ceil(num, den) == -((-num) \div den)

\* [...data].sort((a, b) => a - b): a sorted copy.
RECURSIVE InsertSorted(_, _)
InsertSorted(sorted, x) ==
    IF Len(sorted) = 0 THEN <<x>>
    ELSE IF x < Head(sorted) THEN <<x>> \o sorted
    ELSE <<Head(sorted)>> \o InsertSorted(Tail(sorted), x)

\* A variant of SortedCopy that leaves the data in the order given.
SortedCopy_Unsorted(data) == data

RECURSIVE SortedCopy(_)
SortedCopy(data) ==
    IF Len(data) = 0 THEN <<>>
    ELSE InsertSorted(SortedCopy(SubSeq(data, 1, Len(data) - 1)), data[Len(data)])

\* The body of percentiles.forEach for one p; rank is rankScaled / 100 and
\* weight is weightScaled / 100.  Indices are those of the code, from 0.
PercentileOf(sortedData, p) ==
    LET n == Len(sortedData)
        rankScaled == p * (n - 1)
        lowerIndex == Floor(rankScaled, 100)
        upperIndex == Ceil(rankScaled, 100)
        weightScaled == rankScaled - 100 * lowerIndex
    IN  IF upperIndex >= n THEN <<100 * sortedData[n], 100>>
        ELSE IF lowerIndex < 0 THEN <<100 * sortedData[1], 100>>
        ELSE <<sortedData[lowerIndex + 1] * (100 - weightScaled)
                   + sortedData[upperIndex + 1] * weightScaled, 100>>

\* getPercentiles(data, percentiles): the results object, keyed by p.
getPercentiles(data, percentiles) ==
    IF Len(data) = 0
    THEN [p \in {percentiles[k] : k \in DOMAIN percentiles} |-> NaN]
    ELSE LET sortedData == SortedCopy(data)
         IN  [p \in {percentiles[k] : k \in DOMAIN percentiles} |->
                 PercentileOf(sortedData, p)]

\* Math.min(...data) and Math.max(...data) of a non-empty array.
MathMin(data) ==
    CHOOSE v \in {data[k] : k \in DOMAIN data} : \A k \in DOMAIN data : v <= data[k]
MathMax(data) ==
    CHOOSE v \in {data[k] : k \in DOMAIN data} : \A k \in DOMAIN data : v >= data[k]

\* x.toFixed(digits) of a fraction x >= 0, as the integer x * 10^digits
\* rounded to the nearest; scale is 10^digits.
ToFixed(f, scale) == Floor(2 * scale * f[1] + f[2], 2 * f[2])

\* A variant of BinIndex without the step back from effectiveBinCount and
\* without the clamp.
BinIndex_Unclamped(value, minVal, range, effectiveBinCount) ==
    Floor((value - minVal) * effectiveBinCount, range)

\* The bin of one value: floor((value - minVal) / binWidth) with
\* binWidth = range / effectiveBinCount, stepped back from effectiveBinCount
\* and clamped to 0..effectiveBinCount - 1.
BinIndex(value, minVal, range, effectiveBinCount) ==
    LET floored == Floor((value - minVal) * effectiveBinCount, range)
        binIndex == IF floored = effectiveBinCount THEN floored - 1 ELSE floored
    IN  Max(0, Min(binIndex, effectiveBinCount - 1))

\* calculateHistogram(data, binCount).  A label is the pair of its bounds in
\* tenths (toFixed(1)), or the single value in hundredths (toFixed(2)).
\* Array(n) throws a RangeError for n < 0; with binCount = 0 binWidth is
\* Infinity, every value goes to bins[0] of the empty array and
\* undefined++ leaves NaN there.
calculateHistogram(data, binCount) ==
    IF Len(data) = 0 THEN [throws |-> FALSE, labels |-> <<>>, counts |-> <<>>]
    ELSE LET minVal == MathMin(data)
             maxVal == MathMax(data)
             range == maxVal - minVal
             effectiveBinCount == Min(binCount, Max(1, binCount))
         IN  IF minVal = maxVal
             THEN [throws |-> FALSE,
                   labels |-> <<<<ToFixed(<<minVal, 1>>, 100)>>>>,
                   counts |-> <<Len(data)>>]
             ELSE IF effectiveBinCount < 0
             THEN [throws |-> TRUE, labels |-> <<>>, counts |-> <<>>]
             ELSE IF effectiveBinCount = 0
             THEN [throws |-> FALSE, labels |-> <<>>, counts |-> <<NaN>>]
             ELSE [throws |-> FALSE,
                   labels |-> [i \in 1..effectiveBinCount |->
                       <<ToFixed(<<minVal * effectiveBinCount + (i - 1) * range,
                                   effectiveBinCount>>, 10),
                         ToFixed(<<minVal * effectiveBinCount + i * range,
                                   effectiveBinCount>>, 10)>>],
                   counts |-> [i \in 1..effectiveBinCount |->
                       Cardinality({k \in DOMAIN data :
                           BinIndex(data[k], minVal, range, effectiveBinCount) = i - 1})]]

\* The caller's array after getPercentiles: the sort works on [...data].
DataAfterSort(data) == data

\* The value of `helperCall` when no helper call is modelled, and a call.
\* args are the arguments as passed, arrays the caller's arrays as they are.
NoHelperCall ==
    [fn |-> "none", args |-> <<>>, arrays |-> <<>>, done |-> FALSE, result |-> <<>>]

HelperCall(fn, args, arrays) ==
    [NoHelperCall EXCEPT !.fn = fn, !.args = args, !.arrays = arrays]

(***************************************************************************)
(* runMonteCarloSimulation: its locals, one loop iteration, its return.    *)
(***************************************************************************)
\* arr.reduce((s, c) => s + c, 0) over the first k entries.
RECURSIVE SumFirst(_, _)
SumFirst(seq, k) == IF k = 0 THEN 0 ELSE SumFirst(seq, k - 1) + seq[k]
Sum(seq) == SumFirst(seq, Len(seq))

\* allTaskTimings before the loop: one entry per task id.
EmptyTimings(ts) == [id \in TaskIdsOf(ts) |-> [starts |-> <<>>, finishes |-> <<>>]]

\* tasks.forEach((_, idx) => samples[idx].push(values[idx]))
PushSamples(samples, values) ==
    [idx \in DOMAIN samples |-> Append(samples[idx], values[idx])]

\* Array.prototype.pop; nothing happens to an empty array.
Pop(seq) == IF Len(seq) = 0 THEN seq ELSE SubSeq(seq, 1, Len(seq) - 1)

\* A variant of PopSamples that keeps the samples of a failed trial.
PopSamples_Keep(samples) == samples

\* tasks.forEach((_, idx) => samples[idx].pop())
PopSamples(samples) == [idx \in DOMAIN samples |-> Pop(samples[idx])]

\* A variant of CountCritical that counts every task in every run.
CountCritical_All(counts, ts, criticalPathTasks) ==
    [idx \in DOMAIN counts |-> counts[idx] + 1]

\* tasks.forEach(task => if (criticalPathTasks.has(task.id)) criticalCounts[idx] += 1)
CountCritical(counts, ts, criticalPathTasks) ==
    [idx \in DOMAIN counts |->
        IF ts[idx].id \in criticalPathTasks THEN counts[idx] + 1 ELSE counts[idx]]

\* tasks.forEach(task => push taskTimings[task.id].es / .ef), tasks 1..k.
RECURSIVE RecordTimings(_, _, _, _)
RecordTimings(timings, ts, taskTimings, k) ==
    IF k = 0 THEN timings
    ELSE LET before == RecordTimings(timings, ts, taskTimings, k - 1)
             id == ts[k].id
         IN  IF id \in DOMAIN before /\ id \in DOMAIN taskTimings
             THEN [before EXCEPT
                      ![id] = [starts |-> Append(@.starts, taskTimings[id].es),
                               finishes |-> Append(@.finishes, taskTimings[id].ef)]]
             ELSE before

\* A variant of SimulationRun whose cost carries over from the runs before.
SimulationRun_Accumulating(result, costs) ==
    [totalDuration |-> result.totalDuration,
     totalCost |-> Sum(costs) + Len(simulationRuns),
     criticalPathTasks |-> result.criticalPathTasks]

\* simulationRuns.push({ totalDuration, totalCost, criticalPathTasks })
SimulationRun(result, costs) ==
    [totalDuration |-> result.totalDuration,
     totalCost |-> Sum(costs),
     criticalPathTasks |-> result.criticalPathTasks]

\* `analysis: null`, and the analysis object.  Means and indices are kept as
\* exact fractions <<numerator, denominator>>.
NoAnalysis == [isNull |-> TRUE]

Analysis(runs, counts) ==
    LET validRuns == Len(runs)
    IN  [isNull |-> FALSE,
         meanDuration |-> <<Sum([k \in DOMAIN runs |-> runs[k].totalDuration]), validRuns>>,
         meanCost |-> <<Sum([k \in DOMAIN runs |-> runs[k].totalCost]), validRuns>>,
         criticalityIndex |-> [idx \in DOMAIN counts |-> <<counts[idx], validRuns>>]]

EmptyResult ==
    [simulationRuns |-> <<>>, analysis |-> NoAnalysis,
     taskDurationSamples |-> <<>>, taskCostSamples |-> <<>>,
     allTaskTimings |-> <<>>]

\* The value of mcResult before runMonteCarloSimulation has returned.
NoResult == [simulationRuns |-> <<>>, analysis |-> NoAnalysis,
             taskDurationSamples |-> <<>>, taskCostSamples |-> <<>>,
             allTaskTimings |-> <<>>, pending |-> TRUE]

\* The locals as runMonteCarloSimulation(ts, n) sets them before its loop.
McLocals(ts, n) ==
    [simulationRuns |-> <<>>,
     allTaskTimings |-> EmptyTimings(ts),
     taskDurationSamples |-> [idx \in 1..Len(ts) |-> <<>>],
     taskCostSamples |-> [idx \in 1..Len(ts) |-> <<>>],
     criticalCounts |-> [idx \in 1..Len(ts) |-> 0]]

\* The same variables while no call is in progress.
NoLocals ==
    [simulationRuns |-> <<>>, allTaskTimings |-> <<>>, taskDurationSamples |-> <<>>,
     taskCostSamples |-> <<>>, criticalCounts |-> <<>>]

McEnter(ts, n) ==
    /\ argTasks = ts
    /\ numRuns = n
    /\ mcI = 0
    /\ runDurations = <<>>
    /\ runCosts = <<>>
    /\ cpm = NoCpm
    /\ simulationRuns = McLocals(ts, n).simulationRuns
    /\ allTaskTimings = McLocals(ts, n).allTaskTimings
    /\ taskDurationSamples = McLocals(ts, n).taskDurationSamples
    /\ taskCostSamples = McLocals(ts, n).taskCostSamples
    /\ criticalCounts = McLocals(ts, n).criticalCounts
    /\ mcResult = NoResult

McIdle ==
    /\ numRuns = 0
    /\ mcI = 0
    /\ runCosts = <<>>
    /\ simulationRuns = NoLocals.simulationRuns
    /\ allTaskTimings = NoLocals.allTaskTimings
    /\ taskDurationSamples = NoLocals.taskDurationSamples
    /\ taskCostSamples = NoLocals.taskCostSamples
    /\ criticalCounts = NoLocals.criticalCounts
    /\ mcResult = NoResult

\* A variant of LoopContinues that stops one trial short.
LoopContinues_OneShort == mcI < numRuns - 1

\* The loop condition i < numRuns.
LoopContinues == mcI < numRuns

\* One iteration of the for loop.
McIteration ==
    /\ pc = "loop"
    /\ LoopContinues
    /\ \E durs \in [DOMAIN argTasks -> UNION {SampleDuration(argTasks[k]) : k \in DOMAIN argTasks}],
          costs \in [DOMAIN argTasks -> UNION {SampleCost(argTasks[k]) : k \in DOMAIN argTasks}] :
          /\ \A k \in DOMAIN argTasks :
                durs[k] \in SampleDuration(argTasks[k]) /\ costs[k] \in SampleCost(argTasks[k])
          /\ LET cpmResult == calculateCPM(argTasks, durs)
                 pushedD == PushSamples(taskDurationSamples, durs)
                 pushedC == PushSamples(taskCostSamples, costs)
             IN  /\ runDurations' = durs
                 /\ runCosts' = costs
                 /\ cpm' = cpmResult
                 /\ argTasks' = TasksAfterCPM(argTasks, durs)
                 /\ IF ~cpmResult.isNull
                    THEN /\ simulationRuns' = Append(simulationRuns, SimulationRun(cpmResult, costs))
                         /\ criticalCounts' = CountCritical(criticalCounts, argTasks,
                                                            cpmResult.criticalPathTasks)
                         /\ allTaskTimings' = RecordTimings(allTaskTimings, argTasks,
                                                            cpmResult.taskTimings, Len(argTasks))
                         /\ taskDurationSamples' = pushedD
                         /\ taskCostSamples' = pushedC
                    ELSE /\ taskDurationSamples' = PopSamples(pushedD)
                         /\ taskCostSamples' = PopSamples(pushedC)
                         /\ UNCHANGED <<simulationRuns, criticalCounts, allTaskTimings>>
    /\ mcI' = mcI + 1
    /\ UNCHANGED <<helperCall, sampling, pc, numRuns, mcResult, appVars>>

\* A variant of McReturn without the validRuns === 0 return.
McReturn_Unguarded ==
    /\ pc = "loop"
    /\ ~LoopContinues
    /\ mcResult' = [simulationRuns |-> simulationRuns,
                    analysis |-> Analysis(simulationRuns, criticalCounts),
                    taskDurationSamples |-> taskDurationSamples,
                    taskCostSamples |-> taskCostSamples,
                    allTaskTimings |-> allTaskTimings]
    /\ pc' = "returned"
    /\ UNCHANGED <<helperCall, sampling, cpmVars, numRuns, mcI, runCosts, simulationRuns, taskDurationSamples,
                   taskCostSamples, allTaskTimings, criticalCounts, appVars>>

\* The loop is over: the function returns.
McReturn ==
    /\ pc = "loop"
    /\ ~LoopContinues
    /\ mcResult' = IF Len(simulationRuns) = 0
                   THEN EmptyResult
                   ELSE [simulationRuns |-> simulationRuns,
                         analysis |-> Analysis(simulationRuns, criticalCounts),
                         taskDurationSamples |-> taskDurationSamples,
                         taskCostSamples |-> taskCostSamples,
                         allTaskTimings |-> allTaskTimings]
    /\ pc' = "returned"
    /\ UNCHANGED <<helperCall, sampling, cpmVars, numRuns, mcI, runCosts, simulationRuns, taskDurationSamples,
                   taskCostSamples, allTaskTimings, criticalCounts, appVars>>

(***************************************************************************)
(* App: the state of the component before any event.                       *)
(***************************************************************************)
NoTask == [id |-> ""]
NoError == "null"
NoTimer == [set |-> FALSE]

AppInit ==
    /\ tasks = <<>>
    /\ editingTask = NoTask
    /\ isLoading = FALSE
    /\ error = NoError
    /\ simulationResults = <<>>
    /\ analysis = NoAnalysis
    /\ dependencies = <<>>
    /\ timer = NoTimer
    /\ idsUsed = 0

(***************************************************************************)
(* SpecCPM: calculateCPM applied to every bounded input.                   *)
(***************************************************************************)
InitCPM ==
    /\ sampling = NoSampling
    /\ helperCall = NoHelperCall
    /\ pc = "input"
    /\ argTasks \in CpmInputs
    /\ runDurations = <<>>
    /\ cpm = NoCpm
    /\ McIdle
    /\ AppInit

\* One call calculateCPM(argTasks, durs), durs drawn from the set D.
CallCalculateCPM(D) ==
    /\ pc = "input"
    /\ \E durs \in [1..Len(argTasks) -> D] :
          /\ runDurations' = durs
          /\ cpm' = calculateCPM(argTasks, durs)
          /\ argTasks' = TasksAfterCPM(argTasks, durs)
    /\ pc' = "done"
    /\ UNCHANGED <<helperCall, sampling, mcVars, appVars>>

NextCPM == CallCalculateCPM(DurationSamples)

SpecCPM == InitCPM /\ [][NextCPM]_vars

(***************************************************************************)
(* SpecFS: calculateCPM applied to the task lists whose dependencies are   *)
(* all FS with lag 0, with positive durations.                             *)
(***************************************************************************)
FsDurations == {2, 3, 4, 5, 8}

FsInputs == UNION {TaskLists(n, MaxPlainDeps, TRUE) : n \in 0..Len(TaskIdPool)}

InitFS ==
    /\ sampling = NoSampling
    /\ helperCall = NoHelperCall
    /\ pc = "input"
    /\ argTasks \in FsInputs
    /\ runDurations = <<>>
    /\ cpm = NoCpm
    /\ McIdle
    /\ AppInit

NextFS == CallCalculateCPM(FsDurations)

SpecFS == InitFS /\ [][NextFS]_vars

(***************************************************************************)
(* SpecMC: runMonteCarloSimulation applied to bounded task lists.          *)
(***************************************************************************)
MaxRuns == 2

\* Duration 1..2 and cost 1..2, both triangular.
McParams == Params("Triangular", 1, 1, 2, 0, 0, 0, 0, 1, 1, 2)

\* The ring A <- B <- C <- A.
Ring ==
    [k \in 1..Len(TaskIdPool) |->
        MkTask(TaskIdPool[k],
               <<Dep(TaskIdPool[IF k = 1 THEN Len(TaskIdPool) ELSE k - 1], "FS", 0)>>,
               McParams)]

\* One parameter set per branch of the distType switch, "Uniform" for the
\* default branch, with costs between 1 and 3.
DistProfiles ==
    {Params("Triangular", 1, 1, 2, 0, 0, 0, 0, 1, 2, 3),
     Params("PERT",       1, 1, 2, 0, 0, 0, 0, 1, 2, 3),
     Params("Normal",     0, 0, 0, 2, 1, 0, 0, 1, 2, 3),
     Params("LogNormal",  0, 0, 0, 0, 0, 0, 1, 1, 2, 3),
     Params("Uniform",    1, 1, 2, 0, 0, 0, 0, 1, 2, 3)}

\* A single task of each profile.
DistInputs == {<<MkTask(TaskIdPool[1], <<>>, p)>> : p \in DistProfiles}

\* Up to two tasks with any two FS/0 dependencies or any one dependency, the
\* ring over the whole pool, and the single tasks of DistInputs.
McInputs ==
    UNION {TaskListsWith(n, 2, TRUE, McParams) \cup TaskListsWith(n, 1, FALSE, McParams) :
               n \in 0..2}
        \cup {Ring}
        \cup DistInputs

InitMC ==
    /\ sampling = NoSampling
    /\ helperCall = NoHelperCall
    /\ pc = "loop"
    /\ \E ts \in McInputs, n \in (-1)..MaxRuns : McEnter(ts, n)
    /\ AppInit

NextMC ==
    \/ McIteration
    \/ McReturn

SpecMC == InitMC /\ [][NextMC]_vars

(***************************************************************************)
(* The samplers alone: one call with parameters in and out of domain.      *)
(***************************************************************************)
MaxParam == 3
SamplerParams == (-1)..MaxParam

\* The sampler returns with one of its outcomes.
Returns(fn, outcomes) ==
    /\ pc = "sampler"
    /\ sampling.fn = fn
    /\ \E o \in outcomes :
          sampling' = [sampling EXCEPT !.done = TRUE, !.via = o.via,
                                       !.value = o.value, !.draws = o.draws]
    /\ pc' = "sampled"
    /\ UNCHANGED <<helperCall, cpmVars, mcVars, appVars>>

CallRandomTriangular ==
    Returns("randomTriangular",
            randomTriangularCall(sampling.args[1], sampling.args[2], sampling.args[3]))

CallRandomNormal ==
    Returns("randomNormal", randomNormalCall(sampling.args[1], sampling.args[2]))

CallRandomLogNormal ==
    Returns("randomLogNormal", randomLogNormalCall(sampling.args[1], sampling.args[2]))

CallRandomPERT ==
    Returns("randomPERT",
            randomPERTCall(sampling.args[1], sampling.args[2], sampling.args[3]))

CallHelpersRandomPERT ==
    Returns("helpers.randomPERT",
            helpers_randomPERTCall(sampling.args[1], sampling.args[2], sampling.args[3]))

InitSample ==
    /\ helperCall = NoHelperCall
    /\ pc = "sampler"
    /\ \/ \E fn \in {"randomTriangular", "randomPERT", "helpers.randomPERT"},
             a, b, c \in SamplerParams : sampling = SamplerCall(fn, <<a, b, c>>)
       \/ \E fn \in {"randomNormal", "randomLogNormal"},
             a, b \in SamplerParams : sampling = SamplerCall(fn, <<a, b>>)
    /\ argTasks = <<>>
    /\ runDurations = <<>>
    /\ cpm = NoCpm
    /\ McIdle
    /\ AppInit

NextSample ==
    \/ CallRandomTriangular
    \/ CallRandomNormal
    \/ CallRandomLogNormal
    \/ CallRandomPERT
    \/ CallHelpersRandomPERT

SpecSample == InitSample /\ [][NextSample]_vars

(***************************************************************************)
(* pearsonCorrelation.  The result is kept as its sign and its square, an  *)
(* exact fraction; every deviation from a mean is scaled by n.             *)
(***************************************************************************)
\* The sums of (x[i] - meanX)(y[i] - meanY), times n * n.
DeviationProducts(x, y) ==
    LET n == Len(x)
    IN  Sum([k \in 1..n |-> (n * x[k] - Sum(x)) * (n * y[k] - Sum(y))])

\* A variant of SampleVariance that divides by n.
SampleVariance_Population(squares, n) == <<squares, n * n * n>>

\* The square of stdDev: the sum of squared deviations (given times n * n)
\* over n - 1.
SampleVariance(squares, n) == <<squares, n * n * (n - 1)>>

SignOf(v) == IF v > 0 THEN 1 ELSE IF v < 0 THEN -1 ELSE 0

ZeroCorrelation == [sign |-> 0, square |-> <<0, 1>>]

pearsonCorrelation(x, y) ==
    LET n == Len(x)
    IN  IF n <= 1 \/ Len(x) # Len(y) THEN ZeroCorrelation
        ELSE LET varX == SampleVariance(DeviationProducts(x, x), n)
                 varY == SampleVariance(DeviationProducts(y, y), n)
                 numerator == DeviationProducts(x, y)
                 \* (numerator / denominator) squared, with
                 \* denominator = (n - 1) * stdDevX * stdDevY
                 ratio == <<numerator * numerator * varX[2] * varY[2],
                            n * n * n * n * (n - 1) * (n - 1) * varX[1] * varY[1]>>
             IN  IF varX[1] = 0 \/ varY[1] = 0 THEN ZeroCorrelation
                 ELSE IF ratio[2] = 0 THEN ZeroCorrelation
                 ELSE [sign |-> SignOf(numerator),
                       square |-> IF ratio[1] > ratio[2] THEN <<1, 1>> ELSE ratio]

(***************************************************************************)
(* The statistics helpers alone: one call on bounded data.                 *)
(***************************************************************************)
MaxData == 3
StatValues == {0, 1, MaxParam}

\* The arrays of at most MaxData values, and the array 10, 9, ..., 1.
StatData == UNION {[1..n -> StatValues] : n \in 0..MaxData}
TenDown == [k \in 1..10 |-> 11 - k]

\* The default percentiles, those of the analysis, the ends and beyond.
PercentileLists ==
    {<<10, 50, 90>>, <<10, 25, 50, 75, 80, 90, 95>>, <<0, 100>>, <<-10, 110>>}

NegatedData == {[k \in DOMAIN x |-> -x[k]] : x \in StatData}

\* The bin counts passed to calculateHistogram, the default 20 among them.
MaxBins == 4
BinCounts == (-1)..MaxBins \cup {20}

\* The helper returns its result and leaves the caller's arrays as `arrays`.
HelperReturns(fn, result, arrays) ==
    /\ pc = "helper"
    /\ helperCall.fn = fn
    /\ helperCall' = [helperCall EXCEPT !.done = TRUE, !.result = result,
                                         !.arrays = arrays]
    /\ pc' = "helped"
    /\ UNCHANGED <<cpmVars, mcVars, appVars, sampling>>

CallGetPercentiles ==
    HelperReturns("getPercentiles",
                  getPercentiles(helperCall.args[1], helperCall.args[2]),
                  <<DataAfterSort(helperCall.args[1])>>)

CallCalculateHistogram ==
    HelperReturns("calculateHistogram",
                  calculateHistogram(helperCall.args[1], helperCall.args[2]),
                  <<helperCall.args[1]>>)

CallPearsonCorrelation ==
    HelperReturns("pearsonCorrelation",
                  pearsonCorrelation(helperCall.args[1], helperCall.args[2]),
                  helperCall.args)

InitStats ==
    /\ sampling = NoSampling
    /\ pc = "helper"
    /\ \/ \E data \in StatData \cup {TenDown}, ps \in PercentileLists :
             helperCall = HelperCall("getPercentiles", <<data, ps>>, <<data>>)
       \/ \E x \in StatData, y \in StatData \cup NegatedData :
             helperCall = HelperCall("pearsonCorrelation", <<x, y>>, <<x, y>>)
       \/ \E data \in StatData, binCount \in BinCounts :
             helperCall = HelperCall("calculateHistogram", <<data, binCount>>, <<data>>)
    /\ argTasks = <<>>
    /\ runDurations = <<>>
    /\ cpm = NoCpm
    /\ McIdle
    /\ AppInit

NextStats ==
    \/ CallGetPercentiles
    \/ CallPearsonCorrelation
    \/ CallCalculateHistogram

SpecStats == InitStats /\ [][NextStats]_vars

(***************************************************************************)
(* App and TaskForm: the event handlers.  Every handler runs to completion *)
(* while the event loop is idle (pc = "idle").                             *)
(***************************************************************************)
MAX_TASKS == 100
\* App's numRuns state (500 by default, at least 10 from the input field).
AppNumRuns == MaxRuns

ERR_MAX_TASKS == "Cannot add more than MAX_TASKS tasks."
ERR_NO_TASKS == "Please add at least one task."
ERR_DIRECT_CYCLE == "Direct cycle detected: the two tasks depend on each other."
ERR_CYCLE == "Simulation failed: A cycle was detected in task dependencies."
ERR_NO_RESULTS == "Simulation completed but produced no valid results."

\* What the user enters in the form: the ids the tasks get (in this order,
\* never reused), the dependency types and lags, the parameters.
FormIdPool == <<"A", "B">>
FormTypes == {"FS", "SS"}
FormLags == {0, MaxLag}
FormParams == FixedParams
\* Dependency rows the form holds at most.
MaxFormDeps == Len(FormIdPool) - 1

Idle == pc = "idle"

\* React runs TaskForm's effect when editingTask changes: the dependency rows
\* are reloaded from the task, or cleared.
FormEffect(editing) == IF editing = NoTask THEN <<>> ELSE editing.dependencies

ClearResults ==
    /\ simulationResults' = <<>>
    /\ analysis' = NoAnalysis

addDependency ==
    /\ Idle
    /\ Len(dependencies) < MaxFormDeps
    /\ dependencies' = Append(dependencies, Dep(START, "FS", 0))
    /\ UNCHANGED <<helperCall, sampling, pc, cpmVars, mcVars, tasks, editingTask, isLoading, error,
                   simulationResults, analysis, timer, idsUsed>>

\* The predecessors the select offers: none, and every task but the edited one.
PredecessorOptions == {""} \cup (TaskIdsOf(tasks) \ {editingTask.id})

updateDependency ==
    /\ Idle
    /\ \E k \in DOMAIN dependencies :
          \/ \E value \in PredecessorOptions :
                dependencies' = [dependencies EXCEPT ![k].predecessorId = value]
          \/ /\ dependencies[k].predecessorId \notin {"", START}
             /\ \E value \in FormTypes :
                   dependencies' = [dependencies EXCEPT ![k].type = value]
          \/ /\ dependencies[k].predecessorId \notin {"", START}
             /\ \E value \in FormLags :
                   dependencies' = [dependencies EXCEPT ![k].lag = value]
    /\ UNCHANGED <<helperCall, sampling, pc, cpmVars, mcVars, tasks, editingTask, isLoading, error,
                   simulationResults, analysis, timer, idsUsed>>

removeDependency ==
    /\ Idle
    /\ \E k \in DOMAIN dependencies :
          dependencies' = [j \in 1..(Len(dependencies) - 1) |->
                              IF j < k THEN dependencies[j] ELSE dependencies[j + 1]]
    /\ UNCHANGED <<helperCall, sampling, pc, cpmVars, mcVars, tasks, editingTask, isLoading, error,
                   simulationResults, analysis, timer, idsUsed>>

\* prevTasks.map(task => task.id === taskData.id ? taskData : task)
ReplaceTask(ts, taskData) ==
    [k \in DOMAIN ts |-> IF ts[k].id = taskData.id THEN taskData ELSE ts[k]]

\* A variant of NewTaskId that hands out the first id again.
NewTaskId_Reused(used) == FormIdPool[1]

\* The id of a new task (a time stamp and a random number): one that no task
\* has had before.
NewTaskId(used) == FormIdPool[used + 1]

\* TaskForm.handleSubmit, with App.handleSaveTask as its onSaveTask.
handleSubmit ==
    /\ Idle
    /\ LET isEditing == editingTask # NoTask
           ownId == IF isEditing THEN editingTask.id ELSE "null"
           selfDependent == \E k \in DOMAIN dependencies :
                                dependencies[k].predecessorId = ownId
           taskData == MkTask(IF isEditing THEN editingTask.id ELSE NewTaskId(idsUsed),
                              SelectSeq(dependencies, LAMBDA d : d.predecessorId # ""),
                              FormParams)
       IN  IF selfDependent
           THEN UNCHANGED <<appVars>>
           ELSE /\ isEditing \/ idsUsed < Len(FormIdPool)
                /\ idsUsed' = IF isEditing THEN idsUsed ELSE idsUsed + 1
                /\ dependencies' = <<>>
                /\ IF ~isEditing /\ Len(tasks) >= MAX_TASKS
                   THEN /\ error' = ERR_MAX_TASKS
                        /\ UNCHANGED <<tasks, editingTask, simulationResults, analysis>>
                   ELSE /\ tasks' = IF isEditing THEN ReplaceTask(tasks, taskData)
                                    ELSE Append(tasks, taskData)
                        /\ editingTask' = NoTask
                        /\ ClearResults
                        /\ error' = NoError
                /\ UNCHANGED <<isLoading, timer>>
    /\ UNCHANGED <<helperCall, sampling, pc, cpmVars, mcVars>>

handleEditTask ==
    /\ Idle
    /\ \E k \in DOMAIN tasks :
          /\ editingTask' = tasks[k]
          /\ dependencies' = IF editingTask = tasks[k] THEN dependencies
                             ELSE FormEffect(tasks[k])
    /\ UNCHANGED <<helperCall, sampling, pc, cpmVars, mcVars, tasks, isLoading, error, simulationResults,
                   analysis, timer, idsUsed>>

handleCancelEdit ==
    /\ Idle
    /\ editingTask # NoTask
    /\ editingTask' = NoTask
    /\ dependencies' = FormEffect(NoTask)
    /\ UNCHANGED <<helperCall, sampling, pc, cpmVars, mcVars, tasks, isLoading, error, simulationResults,
                   analysis, timer, idsUsed>>

\* filter out the task, then filter it out of every dependency list.
WithoutTask(ts, taskIdToDelete) ==
    LET kept == SelectSeq(ts, LAMBDA t : t.id # taskIdToDelete)
    IN  [k \in DOMAIN kept |->
            [kept[k] EXCEPT !.dependencies =
                SelectSeq(@, LAMBDA d : d.predecessorId # taskIdToDelete)]]

deleteTask ==
    /\ Idle
    /\ \E k \in DOMAIN tasks :
          LET taskIdToDelete == tasks[k].id
          IN  /\ tasks' = WithoutTask(tasks, taskIdToDelete)
              /\ IF editingTask # NoTask /\ editingTask.id = taskIdToDelete
                 THEN /\ editingTask' = NoTask
                      /\ dependencies' = FormEffect(NoTask)
                 ELSE UNCHANGED <<editingTask, dependencies>>
    /\ ClearResults
    /\ error' = NoError
    /\ UNCHANGED <<helperCall, sampling, pc, cpmVars, mcVars, isLoading, timer, idsUsed>>

\* A variant of DirectCycle that scans the dependencies of the first task only.
DirectCycle_FirstTaskOnly(ts) ==
    \E d \in DOMAIN ts[1].dependencies :
        LET predId == ts[1].dependencies[d].predecessorId
        IN  /\ predId \in TaskIdsOf(ts)
            /\ \E e \in DOMAIN ts[TaskIndex(ts, predId)].dependencies :
                  ts[TaskIndex(ts, predId)].dependencies[e].predecessorId = ts[1].id

\* runSimulation's scan: some task lists a predecessor that is a task and
\* lists that task back.  taskMap.get finds the last task with the id.
DirectCycle(ts) ==
    \E k \in DOMAIN ts : \E d \in DOMAIN ts[k].dependencies :
        LET predId == ts[k].dependencies[d].predecessorId
        IN  /\ predId \in TaskIdsOf(ts)
            /\ \E e \in DOMAIN ts[TaskIndex(ts, predId)].dependencies :
                  ts[TaskIndex(ts, predId)].dependencies[e].predecessorId = ts[k].id

\* The run button is disabled while isLoading.
runSimulation ==
    /\ Idle
    /\ ~isLoading
    /\ IF Len(tasks) = 0
       THEN /\ error' = ERR_NO_TASKS
            /\ UNCHANGED <<isLoading, simulationResults, analysis, timer>>
       ELSE IF DirectCycle(tasks)
       THEN /\ error' = ERR_DIRECT_CYCLE
            /\ UNCHANGED <<isLoading, simulationResults, analysis, timer>>
       ELSE /\ isLoading' = TRUE
            /\ error' = NoError
            /\ ClearResults
            /\ timer' = [set |-> TRUE, tasks |-> tasks, numRuns |-> AppNumRuns]
    /\ UNCHANGED <<helperCall, sampling, pc, cpmVars, mcVars, tasks, editingTask, dependencies, idsUsed>>

\* The setTimeout callback starts: it calls runMonteCarloSimulation with the
\* tasks and numRuns its closure captured.
TimeoutFires ==
    /\ Idle
    /\ timer.set
    /\ pc' = "loop"
    /\ argTasks' = timer.tasks
    /\ numRuns' = timer.numRuns
    /\ mcI' = 0
    /\ simulationRuns' = McLocals(timer.tasks, timer.numRuns).simulationRuns
    /\ allTaskTimings' = McLocals(timer.tasks, timer.numRuns).allTaskTimings
    /\ taskDurationSamples' = McLocals(timer.tasks, timer.numRuns).taskDurationSamples
    /\ taskCostSamples' = McLocals(timer.tasks, timer.numRuns).taskCostSamples
    /\ criticalCounts' = McLocals(timer.tasks, timer.numRuns).criticalCounts
    /\ UNCHANGED <<helperCall, sampling, runDurations, cpm, runCosts, mcResult, appVars>>

\* The rest of the callback, after runMonteCarloSimulation has returned.
\* simRuns is an array, never null.
TimeoutCompletes ==
    /\ pc = "returned"
    /\ LET simRuns == mcResult.simulationRuns
           simAnalysis == mcResult.analysis
       IN  IF Len(simRuns) > 0 /\ ~simAnalysis.isNull
           THEN /\ simulationResults' = simRuns
                /\ analysis' = simAnalysis
                /\ UNCHANGED error
           ELSE /\ error' = ERR_NO_RESULTS
                /\ UNCHANGED <<simulationResults, analysis>>
    /\ isLoading' = FALSE
    /\ timer' = NoTimer
    /\ pc' = "idle"
    /\ argTasks' = <<>>
    /\ runDurations' = <<>>
    /\ cpm' = NoCpm
    /\ numRuns' = 0
    /\ mcI' = 0
    /\ runCosts' = <<>>
    /\ simulationRuns' = NoLocals.simulationRuns
    /\ allTaskTimings' = NoLocals.allTaskTimings
    /\ taskDurationSamples' = NoLocals.taskDurationSamples
    /\ taskCostSamples' = NoLocals.taskCostSamples
    /\ criticalCounts' = NoLocals.criticalCounts
    /\ mcResult' = NoResult
    /\ UNCHANGED <<helperCall, sampling, tasks, editingTask, dependencies, idsUsed>>

(***************************************************************************)
(* Spec: the application, from an empty task list.                         *)
(***************************************************************************)
Init ==
    /\ sampling = NoSampling
    /\ helperCall = NoHelperCall
    /\ pc = "idle"
    /\ argTasks = <<>>
    /\ runDurations = <<>>
    /\ cpm = NoCpm
    /\ McIdle
    /\ AppInit

Next ==
    \/ addDependency
    \/ updateDependency
    \/ removeDependency
    \/ handleSubmit
    \/ handleEditTask
    \/ handleCancelEdit
    \/ deleteTask
    \/ runSimulation
    \/ TimeoutFires
    \/ McIteration
    \/ McReturn
    \/ TimeoutCompletes

Spec == Init /\ [][Next]_vars

(***************************************************************************)
(* SpecRun: Run Simulation pressed on the task lists the form can build    *)
(* (dependencies on START and on other tasks, any type and lag).           *)
(***************************************************************************)
RunInputs ==
    {ts \in CpmInputs :
        \A k \in DOMAIN ts : \A d \in DOMAIN ts[k].dependencies :
            ts[k].dependencies[d].predecessorId \in (TaskIdsOf(ts) \cup {START}) \ {ts[k].id}}

InitRun ==
    /\ sampling = NoSampling
    /\ helperCall = NoHelperCall
    /\ pc = "idle"
    /\ argTasks = <<>>
    /\ runDurations = <<>>
    /\ cpm = NoCpm
    /\ McIdle
    /\ tasks \in RunInputs
    /\ editingTask = NoTask
    /\ isLoading = FALSE
    /\ error = NoError
    /\ simulationResults = <<>>
    /\ analysis = NoAnalysis
    /\ dependencies = <<>>
    /\ timer = NoTimer
    /\ idsUsed = Len(tasks)

NextRun ==
    \/ runSimulation
    \/ TimeoutFires
    \/ McIteration
    \/ McReturn
    \/ TimeoutCompletes

SpecRun == InitRun /\ [][NextRun]_vars

(***************************************************************************)
(* Vocabulary of the claims about calculateCPM.  These definitions state   *)
(* the scheduling rules on their own and use none of the operators of the  *)
(* forward pass, the backward pass or the critical-path test above.        *)
(***************************************************************************)
CpmCalled == pc = "done"
CpmSucceeded == CpmCalled /\ ~cpm.isNull

SetMax(S) == CHOOSE x \in S : \A y \in S : y <= x
SetMin(S) == CHOOSE x \in S : \A y \in S : x <= y
RangeOf(seq) == {seq[k] : k \in DOMAIN seq}
\* "max over all predecessors (0 if none)", "min over all successors
\* (totalDuration if none)".
MaxOr(S, none) == IF S = {} THEN none ELSE SetMax(S)
MinOr(S, none) == IF S = {} THEN none ELSE SetMin(S)

ArgIds == {argTasks[k].id : k \in DOMAIN argTasks}
ArgNodes == ArgIds \cup {START, END}
ArgTask(id) == argTasks[CHOOSE k \in DOMAIN argTasks : argTasks[k].id = id]
\* The duration drawn for node n, and the duration the schedule gives it.
Sampled(n) ==
    IF n \in ArgIds
    THEN runDurations[CHOOSE k \in DOMAIN argTasks : argTasks[k].id = n]
    ELSE 0
Scheduled(n) == IF Sampled(n) < 0 THEN 0 ELSE Sampled(n)

\* Predecessors and successors of a node in the graph of the call.
PredsOf(j) == IF j = START THEN {} ELSE RangeOf(BuildGraph(argTasks).revAdj[j])
SuccsOf(i) == IF i = END THEN {} ELSE RangeOf(BuildGraph(argTasks).adj[i])

\* The dependencies task j lists on i, in list order.
ListedOn(j, i) ==
    IF j \in ArgIds
    THEN SelectSeq(ArgTask(j).dependencies, LAMBDA d : d.predecessorId = i)
    ELSE <<>>
\* The dependency that links i to j: the first one j lists on i, or the
\* implicit FS link with lag 0 (START -> task, task -> END).
AppliedOn(j, i) ==
    IF Len(ListedOn(j, i)) = 0 THEN Dep(i, "FS", 0) ELSE ListedOn(j, i)[1]

\* Task (or END) j lists at most one dependency on each node.
ListsOnce(j) == \A i \in ArgNodes : Len(ListedOn(j, i)) <= 1

\* Required start of j (of duration dj) for dependency d on i.
StartRule(d, i, dj) ==
    IF d.type = "SS" THEN cpm.es[i] + d.lag
    ELSE IF d.type = "FF" THEN cpm.ef[i] + d.lag - dj
    ELSE IF d.type = "SF" THEN cpm.es[i] + d.lag - dj
    ELSE cpm.ef[i] + d.lag
\* Required finish of i (of duration di) for dependency d of j on i.
FinishRule(d, j, di) ==
    IF d.type = "SS" THEN cpm.ls[j] - d.lag + di
    ELSE IF d.type = "FF" THEN cpm.lf[j] - d.lag
    ELSE IF d.type = "SF" THEN cpm.lf[j] - d.lag + di
    ELSE cpm.ls[j] - d.lag

Slack(n) == cpm.ls[n] - cpm.es[n]

(***************************************************************************)
(* C1 - forward pass.                                                      *)
(***************************************************************************)
\* C1 as claimed: after a successful calculateCPM, every node j other than
\* START has earliestStart(j) = the maximum over its predecessors (0 if it
\* has none) of the required start of the dependency (FS: EF(i)+L, SS: ES(i)+L, FF:
\* EF(i)+L-d_j, SF: ES(i)+L-d_j), earliestFinish(j) = earliestStart(j) + d_j
\* (d_j read as the duration the schedule gives j, the dependency as the
\* first one j lists on i), and totalDuration = earliestFinish(END).
C1_Claimed ==
    CpmSucceeded =>
        /\ \A j \in ArgNodes \ {START} :
              /\ cpm.es[j] = MaxOr({StartRule(AppliedOn(j, i), i, Scheduled(j)) :
                                        i \in PredsOf(j)}, 0)
              /\ cpm.ef[j] = cpm.es[j] + Scheduled(j)
        /\ cpm.totalDuration = cpm.ef[END]

\* C1 (amended): after a successful calculateCPM, every node j other than
\* START that lists at most one dependency on each predecessor has
\* earliestStart(j) = the maximum of 0 and, over its predecessors i, the
\* required start of the dependency j lists on i (an implicit link is FS
\* with lag 0), with d_j the sampled duration floored at 0; every node has
\* earliestFinish(j) = earliestStart(j) + d_j; START starts and finishes at
\* 0; totalDuration = earliestFinish(END).
C1_ForwardPass ==
    CpmSucceeded =>
        /\ cpm.es[START] = 0 /\ cpm.ef[START] = 0
        /\ \A j \in ArgNodes \ {START} :
              /\ ListsOnce(j) =>
                    cpm.es[j] = SetMax({0} \cup {StartRule(AppliedOn(j, i), i, Scheduled(j)) :
                                                     i \in PredsOf(j)})
              /\ cpm.ef[j] = cpm.es[j] + Scheduled(j)
        /\ cpm.totalDuration = cpm.ef[END]

\* Witness of C1: a task of positive duration lists a lead (negative lag)
\* on a real predecessor whose required start lies below 0, and starts at 0.
C1_Witness ==
    /\ CpmSucceeded
    /\ \E j \in ArgIds : \E i \in PredsOf(j) \cap ArgIds :
          /\ ListsOnce(j)
          /\ AppliedOn(j, i).lag < 0
          /\ StartRule(AppliedOn(j, i), i, Scheduled(j)) < 0
          /\ cpm.es[j] = 0
          /\ cpm.ef[j] > 0

(***************************************************************************)
(* C2 - backward pass.                                                     *)
(***************************************************************************)
\* C2 as claimed: latestFinish(END) = latestStart(END) = totalDuration, and
\* every node i other than END has latestFinish(i) = the minimum over its
\* successors (totalDuration if it has none) of the required finish of the
\* dependency (FS: LS(j)-L, SS:
\* LS(j)-L+d_i, FF: LF(j)-L, SF: LF(j)-L+d_i) and latestStart(i) =
\* latestFinish(i) - d_i (d_i read as the duration the schedule gives i, the
\* dependency as the first one j lists on i).
C2_Claimed ==
    CpmSucceeded =>
        /\ cpm.lf[END] = cpm.totalDuration /\ cpm.ls[END] = cpm.totalDuration
        /\ \A i \in ArgNodes \ {END} :
              /\ cpm.lf[i] = MinOr({FinishRule(AppliedOn(j, i), j, Scheduled(i)) :
                                        j \in SuccsOf(i)}, cpm.totalDuration)
              /\ cpm.ls[i] = cpm.lf[i] - Scheduled(i)

\* C2 (amended): latestFinish(END) = latestStart(END) = totalDuration, and
\* every node i other than END whose successors each list at most one
\* dependency on it has latestFinish(i) = the minimum of totalDuration and,
\* over its successors j, the required finish of the dependency j lists on i
\* (an implicit link is FS with lag 0), with d_i the sampled duration
\* floored at 0; every node has latestStart(i) = latestFinish(i) - d_i.
C2_BackwardPass ==
    CpmSucceeded =>
        /\ cpm.lf[END] = cpm.totalDuration /\ cpm.ls[END] = cpm.totalDuration
        /\ \A i \in ArgNodes \ {END} :
              /\ (\A j \in SuccsOf(i) : Len(ListedOn(j, i)) <= 1) =>
                    cpm.lf[i] = SetMin({cpm.totalDuration} \cup
                                       {FinishRule(AppliedOn(j, i), j, Scheduled(i)) :
                                           j \in SuccsOf(i)})
              /\ cpm.ls[i] = cpm.lf[i] - Scheduled(i)

\* Witness of C2: no task finishes after totalDuration, and a task whose
\* only successors are tasks has every required finish above totalDuration
\* (a lead on it), so that its latest finish is totalDuration.
C2_Witness ==
    /\ CpmSucceeded
    /\ \A n \in ArgIds : cpm.ef[n] <= cpm.totalDuration
    /\ \E i \in ArgIds :
          /\ Scheduled(i) > 0
          /\ SuccsOf(i) \subseteq ArgIds
          /\ \A j \in SuccsOf(i) : Len(ListedOn(j, i)) = 1
          /\ \E j \in SuccsOf(i) : AppliedOn(j, i).lag < 0
          /\ \A j \in SuccsOf(i) :
                FinishRule(AppliedOn(j, i), j, Scheduled(i)) > cpm.totalDuration
          /\ cpm.lf[i] = cpm.totalDuration

(***************************************************************************)
(* C3 - critical path membership.                                          *)
(***************************************************************************)
WithinTolerance(x) == x < MIN_SLACK_TOLERANCE /\ -x < MIN_SLACK_TOLERANCE

\* C3: in every successful calculateCPM result, a task id is in
\* criticalPathTasks if and only if |latestStart - earliestStart| is below
\* the tolerance or its earliestFinish is within the tolerance of
\* earliestFinish(END); START and END are never members.
C3_CriticalIff ==
    CpmSucceeded =>
        /\ cpm.criticalPathTasks =
              {id \in ArgIds : \/ WithinTolerance(Slack(id))
                               \/ WithinTolerance(cpm.ef[id] - cpm.ef[END])}
        /\ START \notin cpm.criticalPathTasks
        /\ END \notin cpm.criticalPathTasks

\* Witness of C3: one task is critical by its finish alone (its slack is not
\* zero) and another task is not critical.
C3_Witness ==
    /\ CpmSucceeded
    /\ \E id \in cpm.criticalPathTasks :
          ~WithinTolerance(Slack(id)) /\ WithinTolerance(cpm.ef[id] - cpm.ef[END])
    /\ \E id \in ArgIds : id \notin cpm.criticalPathTasks

(***************************************************************************)
(* C4 - cycle failure.                                                     *)
(***************************************************************************)
\* The tasks that list p as a predecessor.
DependentsOf(p) ==
    {t \in ArgIds : \E k \in DOMAIN ArgTask(t).dependencies :
                        ArgTask(t).dependencies[k].predecessorId = p}

RECURSIVE ReachableFrom(_, _)
ReachableFrom(S, steps) ==
    IF steps = 0 THEN S
    ELSE ReachableFrom(S \cup UNION {DependentsOf(x) : x \in S}, steps - 1)

\* Some task reaches itself along dependencies on existing task ids.
HasCycle == \E t \in ArgIds : t \in ReachableFrom(DependentsOf(t), Len(argTasks))

\* C4: calculateCPM returns null exactly when the graph of the tasks'
\* dependencies on existing task ids contains a cycle; for every acyclic
\* task set it returns a result.
C4_NullIffCycle == CpmCalled => (cpm.isNull <=> HasCycle)

\* Witness of C4: null is returned for a ring through three tasks in which
\* no two tasks depend on each other and no task depends on itself, and
\* Kahn's ordering covers fewer nodes than there are.
C4_Witness ==
    /\ CpmCalled
    /\ cpm.isNull
    /\ Len(argTasks) = 3
    /\ \A t \in ArgIds : t \notin DependentsOf(t)
    /\ \A t \in ArgIds : \A u \in DependentsOf(t) : t \notin DependentsOf(u)
    /\ Len(cpm.topoOrder) < Cardinality(ArgNodes)

(***************************************************************************)
(* C8 - critical tasks and slack.                                          *)
(***************************************************************************)
\* C8 as claimed: in every successful trial, every task in that run's
\* criticalPathTasks has zero slack (latestStart - earliestStart = 0 within
\* the tolerance).
C8_Claimed ==
    CpmSucceeded => \A id \in cpm.criticalPathTasks : WithinTolerance(Slack(id))

\* The way C8 fails: a critical task whose slack is not zero has negative
\* slack (it finishes when the project does although its latest finish is
\* earlier), which is the defect C27 is about.
C8_OnlyNegativeSlack ==
    CpmSucceeded =>
        \A id \in cpm.criticalPathTasks : WithinTolerance(Slack(id)) \/ Slack(id) < 0

\* C8 fails with positive durations as well: three tasks, every sampled
\* duration positive, and a critical task with negative slack.
C8_PositiveCase ==
    /\ CpmSucceeded
    /\ Len(argTasks) = 3
    /\ \A n \in ArgIds : Sampled(n) > 0
    /\ \E id \in cpm.criticalPathTasks : Slack(id) < 0

(***************************************************************************)
(* C7 - FS/lag-0 graphs: the longest path.                                 *)
(***************************************************************************)
\* The START-to-END paths, as sequences of tasks: the first task depends on
\* no existing task, each next task depends on the one before it, and no
\* task depends on the last one.  dep[p] is the set of tasks that list p.
PathsOfLen(dep, m) ==
    {p \in [1..m -> ArgIds] :
        /\ \A t \in ArgIds : p[1] \notin dep[t]
        /\ \A k \in 1..(m - 1) : p[k + 1] \in dep[p[k]]
        /\ dep[p[m]] = {}}
Paths == LET dep == [p \in ArgIds |-> DependentsOf(p)]
         IN  UNION {PathsOfLen(dep, m) : m \in 1..Len(argTasks)}

RECURSIVE PathSum(_, _)
PathSum(p, k) == IF k > Len(p) THEN 0 ELSE Sampled(p[k]) + PathSum(p, k + 1)

\* The largest sum of durations along a path among ps (0 if there is none).
Longest(ps) == MaxOr({PathSum(p, 1) : p \in ps}, 0)
Through(ps, t) == {p \in ps : t \in RangeOf(p)}

AllPlainFS ==
    \A k \in DOMAIN argTasks : \A m \in DOMAIN argTasks[k].dependencies :
        /\ argTasks[k].dependencies[m].type = "FS"
        /\ argTasks[k].dependencies[m].lag = 0

\* The two examples of the claim.
IsChain534 ==
    /\ Len(argTasks) = 3 /\ runDurations = <<5, 3, 4>>
    /\ DependentsOf("A") = {"B"} /\ DependentsOf("B") = {"C"} /\ DependentsOf("C") = {}
IsFork582 ==
    /\ Len(argTasks) = 3 /\ runDurations = <<5, 8, 2>>
    /\ DependentsOf("A") = {"C"} /\ DependentsOf("B") = {"C"} /\ DependentsOf("C") = {}

\* C7: for a task graph whose dependencies are all FS with lag 0,
\* totalDuration is the largest sum of durations along a START-to-END path;
\* every task has slack totalDuration minus the largest sum along a path
\* through it, so a task on a longest path has zero slack and is critical
\* and a task on a strictly shorter branch has the difference as slack and
\* is not critical; END's earliest finish equals its latest finish.  The
\* chain 5,3,4 gives 12 with all three critical; A=5 and B=8 feeding C=2
\* gives 10 with B and C critical and slack 3 for A.
C7_LongestPath ==
    (CpmSucceeded /\ AllPlainFS) =>
        LET paths == Paths
        IN  /\ cpm.totalDuration = Longest(paths)
            /\ cpm.ef[END] = cpm.lf[END]
            /\ \A t \in ArgIds :
                  /\ Through(paths, t) # {}
                  /\ Slack(t) = cpm.totalDuration - Longest(Through(paths, t))
                  /\ t \in cpm.criticalPathTasks
                        <=> Longest(Through(paths, t)) = cpm.totalDuration
            /\ IsChain534 => /\ cpm.totalDuration = 12
                             /\ cpm.criticalPathTasks = {"A", "B", "C"}
            /\ IsFork582 => /\ cpm.totalDuration = 10
                            /\ cpm.criticalPathTasks = {"B", "C"}
                            /\ Slack("A") = 3

\* Witness of C7: the fork example has been scheduled.
C7_Witness == CpmSucceeded /\ AllPlainFS /\ IsFork582 /\ cpm.totalDuration = 10

\* The chain example is reached as well.
C7_ChainReached == CpmSucceeded /\ AllPlainFS /\ IsChain534 /\ cpm.totalDuration = 12

(***************************************************************************)
(* C5 - mutual dependencies are rejected by runSimulation.                 *)
(***************************************************************************)
\* Two different tasks of ts each list the other as a predecessor.
ListsAsPredecessor(t, u) ==
    \E k \in DOMAIN t.dependencies : t.dependencies[k].predecessorId = u.id

MutualDependency(ts) ==
    \E a, b \in DOMAIN ts :
        /\ ts[a].id # ts[b].id
        /\ ListsAsPredecessor(ts[a], ts[b])
        /\ ListsAsPredecessor(ts[b], ts[a])

\* C5: when two tasks depend on each other, runSimulation sets the direct
\* cycle error and nothing else happens: the loading state is not entered,
\* no callback is scheduled, and runMonteCarloSimulation is never running on
\* (nor scheduled for) a task list with a mutual dependency.
C5_MutualRejected ==
    /\ [][(runSimulation /\ MutualDependency(tasks)) =>
              /\ error' = ERR_DIRECT_CYCLE
              /\ isLoading' = FALSE
              /\ timer' = NoTimer
              /\ pc' = "idle"
              /\ UNCHANGED <<cpmVars, mcVars>>]_vars
    /\ [](timer.set => ~MutualDependency(timer.tasks))
    /\ [](pc \in {"loop", "returned"} => ~MutualDependency(argTasks))

\* Witness of C5: the direct cycle error is shown for a list of three tasks
\* of which the last two depend on each other, and nothing is loading.
C5_Witness ==
    /\ pc = "idle"
    /\ error = ERR_DIRECT_CYCLE
    /\ Len(tasks) = 3
    /\ ListsAsPredecessor(tasks[2], tasks[3])
    /\ ListsAsPredecessor(tasks[3], tasks[2])
    /\ ~isLoading
    /\ ~timer.set

(***************************************************************************)
(* C6 - cycles of any length.                                              *)
(***************************************************************************)
\* C6 as claimed: when the callback of runSimulation finishes a batch over a
\* task list with a dependency cycle, the error shown names a dependency
\* cycle and the loop has not gone through all numRuns trials.
C6_Claimed ==
    [][(pc = "returned" /\ pc' = "idle" /\ HasCycle) =>
           /\ error' \in {ERR_CYCLE, ERR_DIRECT_CYCLE}
           /\ mcI < numRuns]_vars

\* What the code does instead: every batch that starts over a cyclic task
\* list runs all its trials and ends with the no-valid-results error.
C6_RunsAllTrials ==
    [][(pc = "returned" /\ pc' = "idle" /\ HasCycle) =>
           /\ error' = ERR_NO_RESULTS
           /\ mcI = numRuns
           /\ numRuns > 0]_vars

\* A batch over a ring of three tasks has run to its end.
C6_RingRan ==
    /\ pc = "returned"
    /\ Len(argTasks) = 3
    /\ HasCycle
    /\ ~MutualDependency(argTasks)

(***************************************************************************)
(* C9 - the accumulated sequences stay aligned with simulationRuns.        *)
(***************************************************************************)
\* Every per-task sequence has one entry per valid run, and entry k carries
\* trial k: the costs of entry k add up to the run's totalCost, and each
\* task's k-th finish is its k-th start plus its k-th sampled duration
\* (a negative sample counting as 0).
Aligned(ts, runs, durationSamples, costSamples, timings) ==
    /\ DOMAIN durationSamples = DOMAIN ts
    /\ DOMAIN costSamples = DOMAIN ts
    /\ \A idx \in DOMAIN ts :
          /\ Len(durationSamples[idx]) = Len(runs)
          /\ Len(costSamples[idx]) = Len(runs)
          /\ ts[idx].id \in DOMAIN timings
          /\ Len(timings[ts[idx].id].starts) = Len(runs)
          /\ Len(timings[ts[idx].id].finishes) = Len(runs)
    /\ \A k \in DOMAIN runs :
          /\ runs[k].totalCost = Sum([idx \in DOMAIN ts |-> costSamples[idx][k]])
          /\ \A idx \in DOMAIN ts :
                timings[ts[idx].id].finishes[k] =
                    timings[ts[idx].id].starts[k]
                        + (IF durationSamples[idx][k] < 0 THEN 0 ELSE durationSamples[idx][k])

\* C9: before the loop, at the end of every iteration, and in every
\* non-empty result returned, the sequences are aligned.
C9_SequencesAligned ==
    /\ pc = "loop" =>
          Aligned(argTasks, simulationRuns, taskDurationSamples, taskCostSamples,
                  allTaskTimings)
    /\ (pc = "returned" /\ Len(mcResult.simulationRuns) > 0) =>
          Aligned(argTasks, mcResult.simulationRuns, mcResult.taskDurationSamples,
                  mcResult.taskCostSamples, mcResult.allTaskTimings)

\* Witness of C9: a result of two runs over two tasks whose samples differ
\* between the runs.
C9_Witness ==
    /\ pc = "returned"
    /\ Len(argTasks) = 2
    /\ Len(mcResult.simulationRuns) = 2
    /\ mcResult.taskDurationSamples[1] = <<1, 2>>
    /\ mcResult.taskDurationSamples[2] = <<2, 1>>
    /\ mcResult.taskCostSamples[1] = <<2, 1>>

\* A failed iteration has ended (C9's discard case).
C9_FailedIterationReached ==
    /\ pc = "loop"
    /\ mcI > 0
    /\ cpm.isNull

(***************************************************************************)
(* C10 - all trials of a batch succeed, or none.                           *)
(***************************************************************************)
\* C10: for numRuns >= 1, runMonteCarloSimulation returns 0 valid runs if
\* the graph has a cycle and exactly numRuns valid runs if it has none.
C10_AllOrNone ==
    (pc = "returned" /\ numRuns >= 1) =>
        Len(mcResult.simulationRuns) = IF HasCycle THEN 0 ELSE numRuns

\* Witness of C10: numRuns valid runs, more than one, with different sampled
\* durations.
C10_Witness ==
    /\ pc = "returned"
    /\ numRuns > 1
    /\ Len(mcResult.simulationRuns) = numRuns
    /\ Len(argTasks) > 0
    /\ mcResult.taskDurationSamples[1][1] # mcResult.taskDurationSamples[1][2]

\* A batch over a cyclic graph has returned no run.
C10_NoneReached ==
    /\ pc = "returned"
    /\ numRuns > 1
    /\ HasCycle
    /\ Len(mcResult.simulationRuns) = 0

(***************************************************************************)
(* C11 - no valid run: the empty result.                                   *)
(***************************************************************************)
\* The denominators of the fractions an analysis object holds.
Divisors(a) ==
    {a.meanDuration[2], a.meanCost[2]}
        \cup {a.criticalityIndex[idx][2] : idx \in DOMAIN a.criticalityIndex}

\* C11: when the graph has a cycle or numRuns <= 0 no trial succeeds, and
\* whenever no trial succeeded runMonteCarloSimulation returns empty
\* simulationRuns, a null analysis, no sample sequences and no task timings;
\* an analysis that is returned never has a zero divisor.
C11_EmptyResult ==
    pc = "returned" =>
        /\ (HasCycle \/ numRuns <= 0) => Len(simulationRuns) = 0
        /\ Len(simulationRuns) = 0 =>
              /\ mcResult.simulationRuns = <<>>
              /\ mcResult.analysis.isNull
              /\ mcResult.taskDurationSamples = <<>>
              /\ mcResult.taskCostSamples = <<>>
              /\ mcResult.allTaskTimings = <<>>
        /\ ~mcResult.analysis.isNull => \A d \in Divisors(mcResult.analysis) : d > 0

\* Witness of C11: every one of several trials over a ring of three tasks
\* failed and the result is empty.
C11_Witness ==
    /\ pc = "returned"
    /\ numRuns > 1
    /\ mcI = numRuns
    /\ Len(argTasks) = 3
    /\ HasCycle
    /\ mcResult.analysis.isNull
    /\ mcResult.taskDurationSamples = <<>>

\* The other case of C11: a negative numRuns over an acyclic task list.
C11_NegativeRunsReached ==
    /\ pc = "returned"
    /\ numRuns < 0
    /\ Len(argTasks) > 0
    /\ ~HasCycle
    /\ mcResult.analysis.isNull

(***************************************************************************)
(* C12 - a batch over zero tasks.                                          *)
(***************************************************************************)
\* The half of C12 about runSimulation: with an empty task list it shows
\* the no-tasks error, starts no batch and produces no analysis.
C12_ViaRunSimulation ==
    [][(runSimulation /\ Len(tasks) = 0) =>
           /\ error' = ERR_NO_TASKS
           /\ isLoading' = FALSE
           /\ timer' = NoTimer
           /\ pc' = "idle"
           /\ analysis' = analysis
           /\ simulationResults' = simulationResults]_vars

\* C12 as claimed: no analysis is produced for an empty task list, neither
\* by runSimulation nor by runMonteCarloSimulation called with an empty
\* task array.
C12_Claimed ==
    /\ []((pc = "returned" /\ Len(argTasks) = 0) => mcResult.analysis.isNull)
    /\ C12_ViaRunSimulation

\* What runMonteCarloSimulation does with an empty task array: for
\* numRuns >= 1 every trial succeeds with totalDuration 0 and totalCost 0,
\* and an analysis over numRuns runs is returned.
C12_EmptyListAnalysed ==
    (pc = "returned" /\ Len(argTasks) = 0 /\ numRuns >= 1) =>
        /\ Len(mcResult.simulationRuns) = numRuns
        /\ ~mcResult.analysis.isNull
        /\ mcResult.analysis.meanDuration = <<0, numRuns>>
        /\ mcResult.analysis.meanCost = <<0, numRuns>>
        /\ mcResult.analysis.criticalityIndex = <<>>

\* The batch over an empty task array has returned.
C12_EmptyListReached == pc = "returned" /\ Len(argTasks) = 0 /\ numRuns > 1

(***************************************************************************)
(* C13 - the criticality index.                                            *)
(***************************************************************************)
\* The runs of rs whose criticalPathTasks contains id.
RunsCritical(rs, id) == {k \in DOMAIN rs : id \in rs[k].criticalPathTasks}

\* ts is a strictly sequential chain: one task has no dependency, every
\* other task has exactly one, FS with lag 0, on another task of ts, no two
\* tasks have the same predecessor, and there is no cycle.
IsSequentialChain(ts) ==
    /\ Len(ts) > 0
    /\ Cardinality({k \in DOMAIN ts : Len(ts[k].dependencies) = 0}) = 1
    /\ \A k \in DOMAIN ts :
          /\ Len(ts[k].dependencies) <= 1
          /\ \A d \in DOMAIN ts[k].dependencies :
                /\ ts[k].dependencies[d].type = "FS"
                /\ ts[k].dependencies[d].lag = 0
                /\ \E m \in DOMAIN ts :
                      m # k /\ ts[m].id = ts[k].dependencies[d].predecessorId
    /\ \A k, m \in DOMAIN ts :
          (k # m /\ Len(ts[k].dependencies) = 1 /\ Len(ts[m].dependencies) = 1) =>
              ts[k].dependencies[1].predecessorId # ts[m].dependencies[1].predecessorId
    /\ ~HasCycle

\* C13: in every non-empty result, criticalityIndex[task] is the number of
\* runs whose criticalPathTasks contains the task over the valid-run count,
\* so it lies in [0,1]; it is 1 for every task of a sequential chain.
C13_CriticalityIndex ==
    (pc = "returned" /\ ~mcResult.analysis.isNull) =>
        LET rs == mcResult.simulationRuns
            index == mcResult.analysis.criticalityIndex
        IN  /\ DOMAIN index = DOMAIN argTasks
            /\ \A idx \in DOMAIN argTasks :
                  /\ index[idx][2] = Len(rs)
                  /\ index[idx][1] = Cardinality(RunsCritical(rs, argTasks[idx].id))
                  /\ 0 <= index[idx][1]
                  /\ index[idx][1] <= index[idx][2]
                  /\ IsSequentialChain(argTasks) => index[idx][1] = index[idx][2]

\* Witness of C13: over two runs of two parallel tasks one task is critical
\* in one run only (index 1/2) and the other in both.
C13_Witness ==
    /\ pc = "returned"
    /\ Len(argTasks) = 2
    /\ Len(mcResult.simulationRuns) = 2
    /\ mcResult.analysis.criticalityIndex[1] = <<1, 2>>
    /\ mcResult.analysis.criticalityIndex[2] = <<2, 2>>

\* The chain case of C13: a chain of two tasks has returned with index 1.
C13_ChainReached ==
    /\ pc = "returned"
    /\ Len(argTasks) = 2
    /\ IsSequentialChain(argTasks)
    /\ Len(mcResult.simulationRuns) = 2
    /\ mcResult.analysis.criticalityIndex[1] = <<2, 2>>

(***************************************************************************)
(* C14 - START and END edges of the graph.                                 *)
(***************************************************************************)
\* The graph calculateCPM has built for its argument.
ArgGraph == BuildGraph(argTasks)

\* The edges of a graph: from -> to is in adj[from] and in revAdj[to].
EdgesOf(g) ==
    {e \in ArgNodes \X ArgNodes :
        /\ e[1] \in DOMAIN g.adj
        /\ e[2] \in RangeOf(g.adj[e[1]])
        /\ e[2] \in DOMAIN g.revAdj
        /\ e[1] \in RangeOf(g.revAdj[e[2]])}

HasEdge(from, to) == <<from, to>> \in EdgesOf(ArgGraph)

\* Some dependency of the task names the id of a task of the list.
NamesExistingTask(task) ==
    \E d \in DOMAIN task.dependencies : task.dependencies[d].predecessorId \in ArgIds

\* The nodes reached from S along at most `steps` of the edges E.
RECURSIVE EdgeReach(_, _, _)
EdgeReach(E, S, steps) ==
    IF steps = 0 THEN S
    ELSE EdgeReach(E, S \cup {e[2] : e \in {f \in E : f[1] \in S}}, steps - 1)

\* C14: a task with no dependency naming an existing task id has the edge
\* START -> task; a task no task lists as predecessor has the edge
\* task -> END; without a cycle every task has a predecessor and a successor
\* and lies on a path from START to END.
C14_StartEndEdges ==
    CpmCalled =>
        LET E == EdgesOf(ArgGraph)
        IN  /\ \A k \in DOMAIN argTasks :
                  ~NamesExistingTask(argTasks[k]) => <<START, argTasks[k].id>> \in E
            /\ \A t \in ArgIds : DependentsOf(t) = {} => <<t, END>> \in E
            /\ ~HasCycle =>
                  \A t \in ArgIds :
                      /\ \E e \in E : e[2] = t
                      /\ \E e \in E : e[1] = t
                      /\ t \in EdgeReach(E, {START}, Len(argTasks) + 1)
                      /\ END \in EdgeReach(E, {t}, Len(argTasks) + 1)

\* Witness of C14: three tasks, one without dependencies, one whose only
\* dependency names an unknown id and one depending on START and on the
\* first; the first two are linked from START, the last two to END.
C14_Witness ==
    /\ CpmSucceeded
    /\ Len(argTasks) = 3
    /\ Len(argTasks[1].dependencies) = 0
    /\ Len(argTasks[2].dependencies) = 1
    /\ argTasks[2].dependencies[1].predecessorId = UNKNOWN_ID
    /\ Len(argTasks[3].dependencies) = 2
    /\ argTasks[3].dependencies[1].predecessorId = START
    /\ argTasks[3].dependencies[2].predecessorId = argTasks[1].id
    /\ HasEdge(START, argTasks[1].id) /\ HasEdge(START, argTasks[2].id)
    /\ HasEdge(START, argTasks[3].id) /\ HasEdge(argTasks[1].id, argTasks[3].id)
    /\ HasEdge(argTasks[2].id, END) /\ HasEdge(argTasks[3].id, END)
    /\ ~HasEdge(argTasks[1].id, END)

(***************************************************************************)
(* C15 - the order of the task array.                                      *)
(***************************************************************************)
\* The bijections of 1..n onto itself.
Orders(n) == {f \in [1..n -> 1..n] : \A a, b \in 1..n : f[a] = f[b] => a = b}

Reorder(seq, f) == [k \in 1..Len(seq) |-> seq[f[k]]]

\* What the claim compares of a result: null or not, totalDuration, the
\* critical set and every task's ES and EF.
Outcome(r) ==
    IF r.isNull THEN <<"null">>
    ELSE <<"result", r.totalDuration, r.criticalPathTasks, r.taskTimings>>

\* C15: calculateCPM of any reordering of the task array, with the durations
\* reordered alike, gives the totalDuration, critical set and ES/EF of every
\* task that it gives for the array as passed.
C15_OrderInvariant ==
    CpmCalled =>
        \A f \in Orders(Len(argTasks)) :
            Outcome(calculateCPM(Reorder(argTasks, f), Reorder(runDurations, f)))
                = Outcome(cpm)

\* Witness of C15: the array lists a chain of three tasks last-to-first
\* with distinct durations; listing it first-to-last gives the same result.
C15_Witness ==
    /\ CpmSucceeded
    /\ Len(argTasks) = 3
    /\ \A k \in 1..2 :
          /\ Len(argTasks[k].dependencies) = 1
          /\ argTasks[k].dependencies[1] = Dep(argTasks[k + 1].id, "FS", 0)
    /\ Len(argTasks[3].dependencies) = 0
    /\ runDurations = <<1, MaxDuration, MaxDuration>>
    /\ cpm.totalDuration = 1 + 2 * MaxDuration
    /\ cpm.taskTimings[argTasks[1].id].es = 2 * MaxDuration
    /\ Outcome(calculateCPM(Reorder(argTasks, <<3, 2, 1>>),
                            Reorder(runDurations, <<3, 2, 1>>))) = Outcome(cpm)

SameDraws(k1, k2) ==
    \A idx \in DOMAIN argTasks :
        /\ taskDurationSamples[idx][k1] = taskDurationSamples[idx][k2]
        /\ taskCostSamples[idx][k1] = taskCostSamples[idx][k2]

\* What run k recorded: its SimulationRun and every task's start and finish.
RecordedOf(k) ==
    <<simulationRuns[k],
      [id \in ArgIds |-> <<allTaskTimings[id].starts[k], allTaskTimings[id].finishes[k]>>]>>

\* Every sample and timing array has one entry per recorded run.
EveryRunRecorded ==
    \A idx \in DOMAIN argTasks :
        /\ Len(taskDurationSamples[idx]) = Len(simulationRuns)
        /\ Len(taskCostSamples[idx]) = Len(simulationRuns)
        /\ Len(allTaskTimings[argTasks[idx].id].starts) = Len(simulationRuns)
        /\ Len(allTaskTimings[argTasks[idx].id].finishes) = Len(simulationRuns)

C17_DifferentDrawsReached ==
    /\ pc = "returned"
    /\ Len(simulationRuns) = 2
    /\ ~SameDraws(1, 2)
    /\ simulationRuns[1].totalDuration # simulationRuns[2].totalDuration

(***************************************************************************)
(* C18 - the cost draws.                                                   *)
(***************************************************************************)
\* The values a Triangular draw over min <= max can take.
TriangularSupport(c) == IF c.max = c.min THEN {c.min} ELSE c.min..c.max

\* The sum of the cost samples recorded for run k.
CostOfRun(k) == Sum([idx \in DOMAIN argTasks |-> taskCostSamples[idx][k]])

C18_OtherTypesReached(distType) ==
    /\ pc = "returned"
    /\ Len(argTasks) = 1
    /\ argTasks[1].distType = distType
    /\ Len(simulationRuns) = 2
    /\ simulationRuns[2].totalCost = 3

C18_LogNormalReached == C18_OtherTypesReached("LogNormal")
C18_PertReached == C18_OtherTypesReached("PERT")
C18_DefaultReached == C18_OtherTypesReached("Uniform")

\* Two tasks: the totalCost of a run is the sum of both draws.
C18_SumReached ==
    /\ pc = "returned"
    /\ Len(argTasks) = 2
    /\ Len(simulationRuns) = 1
    /\ taskCostSamples[1] = <<2>>
    /\ taskCostSamples[2] = <<1>>
    /\ simulationRuns[1].totalCost = 3

(***************************************************************************)
(* C19 - parameters out of domain.                                         *)
(***************************************************************************)
\* The sampler fn has returned from a call with the arguments args.
HasReturned(fn) == pc = "sampled" /\ sampling.done /\ sampling.fn = fn

\* The call returned v by a return statement and took no draw.
Recovered(v) == sampling.via = "return" /\ sampling.value = v /\ sampling.draws = 0

PertOrderViolated(min, likely, max) == max < min \/ likely < min \/ likely > max

\* C19: Normal with stdDev <= 0 returns mean; LogNormal with sigma <= 0
\* returns e^mu; PERT and Triangular with max = min return min; PERT with
\* max < min or likely outside [min, max] returns likely (max = min is
\* tested first); each of these returns takes no draw from the generator.
C19_DeterministicRecovery ==
    LET a == sampling.args
    IN  /\ (HasReturned("randomNormal") /\ a[2] <= 0) => Recovered(a[1])
        /\ (HasReturned("randomLogNormal") /\ a[2] <= 0) => Recovered(Exp(a[1]))
        /\ (HasReturned("randomTriangular") /\ a[3] = a[1]) => Recovered(a[1])
        /\ \A fn \in {"randomPERT", "helpers.randomPERT"} :
              /\ (HasReturned(fn) /\ a[3] = a[1]) => Recovered(a[1])
              /\ (HasReturned(fn) /\ a[3] # a[1] /\ PertOrderViolated(a[1], a[2], a[3]))
                     => Recovered(a[2])

\* Witness of C19: randomNormal(2, -1) has returned 2 without a draw.
C19_Witness ==
    /\ HasReturned("randomNormal")
    /\ sampling.args = <<2, -1>>
    /\ Recovered(2)

\* The other recoveries of C19.
C19_LogNormalReached ==
    HasReturned("randomLogNormal") /\ sampling.args = <<1, 0>> /\ Recovered(3)

C19_TriangularReached ==
    HasReturned("randomTriangular") /\ sampling.args = <<2, 3, 2>> /\ Recovered(2)

C19_PertEqualReached ==
    HasReturned("randomPERT") /\ sampling.args = <<2, 3, 2>> /\ Recovered(2)

C19_PertOrderReached ==
    HasReturned("randomPERT") /\ sampling.args = <<1, 3, 2>> /\ Recovered(3)

C19_PertReversedReached ==
    HasReturned("helpers.randomPERT") /\ sampling.args = <<3, 2, 1>> /\ Recovered(2)

\* In domain, the samplers draw: randomNormal(2, 1) has drawn three times.
C19_DrawsReached ==
    /\ HasReturned("randomNormal")
    /\ sampling.args = <<2, 1>>
    /\ sampling.value = 3
    /\ sampling.draws = 2 + MaxRedraws

(***************************************************************************)
(* C20 - the Triangular fallback of randomPERT.                            *)
(***************************************************************************)
PertInDomain(min, likely, max) == min <= likely /\ likely <= max /\ min < max

\* likely equals the PERT mean (min + 4 likely + max) / 6, which makes the
\* denominator (likely - mean) * (max - min) of alpha zero.
LikelyIsMean(min, likely, max) == 2 * likely = min + max

\* C20: for parameters in domain, randomPERT returns a Triangular sample
\* whenever likely equals the PERT mean or a shape is not finite and
\* positive, and draws from the Beta distribution only otherwise.
C20_Claimed ==
    LET a == sampling.args
    IN  (HasReturned("randomPERT") /\ PertInDomain(a[1], a[2], a[3])) =>
            /\ LikelyIsMean(a[1], a[2], a[3]) => sampling.via = "triangular"
            /\ sampling.via = "beta" => ~LikelyIsMean(a[1], a[2], a[3])

\* The fraction f has the value n.
FractionIs(f, n) == f[2] # 0 /\ f[1] = n * f[2]

\* What the code does instead: every call in domain, likely = mean included,
\* draws from the Beta distribution; at likely = mean the shapes are
\* alpha = gamma + 1 and beta = 1 in App.js and alpha = beta = 1 in helpers.js.
C20_AlwaysBeta ==
    LET a == sampling.args
    IN  /\ (HasReturned("randomPERT") /\ PertInDomain(a[1], a[2], a[3])) =>
              /\ sampling.via = "beta"
              /\ LikelyIsMean(a[1], a[2], a[3]) =>
                    /\ FractionIs(PertShape(a[1], a[2], a[3]).alpha, gamma + 1)
                    /\ FractionIs(PertShape(a[1], a[2], a[3]).beta, 1)
        /\ (HasReturned("helpers.randomPERT") /\ PertInDomain(a[1], a[2], a[3])) =>
              /\ sampling.via = "beta"
              /\ LikelyIsMean(a[1], a[2], a[3]) =>
                    /\ FractionIs(helpers_PertShape(a[1], a[2], a[3]).alpha, 1)
                    /\ FractionIs(helpers_PertShape(a[1], a[2], a[3]).beta, 1)

\* randomPERT(0, 1, 2) has returned a Beta sample.
C20_BetaAtMeanReached ==
    /\ HasReturned("randomPERT")
    /\ sampling.args = <<0, 1, 2>>
    /\ sampling.via = "beta"
    /\ sampling.draws = 1

(***************************************************************************)
(* C21 - getPercentiles.                                                   *)
(***************************************************************************)
HelperReturned(fn) == pc = "helped" /\ helperCall.done /\ helperCall.fn = fn

\* The k-th smallest value of data, k from 1, found by counting.
KthSmallest(data, k) ==
    CHOOSE v \in RangeOf(data) :
        /\ Cardinality({m \in DOMAIN data : data[m] < v}) < k
        /\ Cardinality({m \in DOMAIN data : data[m] <= v}) >= k

\* The fractions f and g have the same value.
SameFraction(f, g) == f[2] # 0 /\ g[2] # 0 /\ f[1] * g[2] = g[1] * f[2]

\* The linear interpolation of the sorted data at rank (p/100)(n-1), for
\* 0 <= p <= 100, as a fraction over 100.
Interpolated(data, p) ==
    LET n == Len(data)
        below == (p * (n - 1)) \div 100
        part == (p * (n - 1)) % 100
        above == IF part = 0 THEN below ELSE below + 1
    IN  <<KthSmallest(data, below + 1) * (100 - part)
              + KthSmallest(data, above + 1) * part, 100>>

\* C21: on non-empty data getPercentiles maps every p of 0..100 to the
\* linear interpolation of the sorted data at rank (p/100)(n-1), p = 0 to
\* the minimum and p = 100 to the maximum, p < 0 to the first and p > 100 to
\* the last sorted element; 50 on 1..10 gives 5.5; on empty data every p
\* maps to NaN; the caller's array is as it was passed.
C21_Percentiles ==
    HelperReturned("getPercentiles") =>
        LET data == helperCall.args[1]
            ps == RangeOf(helperCall.args[2])
            result == helperCall.result
        IN  /\ DOMAIN result = ps
            /\ helperCall.arrays = <<data>>
            /\ Len(data) = 0 => \A p \in ps : result[p] = NaN
            /\ Len(data) > 0 =>
                  \A p \in ps :
                      /\ (0 <= p /\ p <= 100) => SameFraction(result[p], Interpolated(data, p))
                      /\ p <= 0 => SameFraction(result[p], <<KthSmallest(data, 1), 1>>)
                      /\ p >= 100 => SameFraction(result[p], <<KthSmallest(data, Len(data)), 1>>)
            /\ (RangeOf(data) = 1..10 /\ Len(data) = 10 /\ 50 \in ps) =>
                  SameFraction(result[50], <<11, 2>>)

\* Witness of C21: the percentiles 10, 50, 90 of 10, 9, ..., 1 are 1.9, 5.5
\* and 9.1.
C21_Witness ==
    /\ HelperReturned("getPercentiles")
    /\ helperCall.args = <<TenDown, <<10, 50, 90>>>>
    /\ helperCall.result[10] = <<190, 100>>
    /\ helperCall.result[50] = <<550, 100>>
    /\ helperCall.result[90] = <<910, 100>>

C21_UnsortedReached ==
    /\ HelperReturned("getPercentiles")
    /\ helperCall.args = <<<<MaxParam, 0, 1>>, <<-10, 110>>>>
    /\ helperCall.arrays = <<<<MaxParam, 0, 1>>>>
    /\ helperCall.result[-10] = <<0, 100>>
    /\ helperCall.result[110] = <<100 * MaxParam, 100>>

C21_EmptyReached ==
    /\ HelperReturned("getPercentiles")
    /\ helperCall.args = <<<<>>, <<10, 50, 90>>>>
    /\ helperCall.result[50] = NaN

(***************************************************************************)
(* C22 - calculateHistogram.                                               *)
(***************************************************************************)
\* The value v belongs to bin i of b equal-width bins over [lo, hi]: it lies
\* in [lo + (i-1)w, lo + iw) with w = (hi - lo) / b, or it is hi and i is b.
InBin(v, i, b, lo, hi) ==
    \/ (i - 1) * (hi - lo) <= (v - lo) * b /\ (v - lo) * b < i * (hi - lo)
    \/ i = b /\ v = hi

\* C22: empty data gives no bins; data with min = max gives one bin with all
\* points; otherwise, for binCount >= 1, there are binCount labels and
\* counts, the bins are of equal width from min to max, every point is
\* counted in the one bin it belongs to (the maximum in the last), and the
\* counts sum to data.length.
C22_Histogram ==
    HelperReturned("calculateHistogram") =>
        LET data == helperCall.args[1]
            b == helperCall.args[2]
            h == helperCall.result
            lo == SetMin(RangeOf(data))
            hi == SetMax(RangeOf(data))
        IN  /\ Len(data) = 0 => (h.labels = <<>> /\ h.counts = <<>> /\ ~h.throws)
            /\ (Len(data) > 0 /\ lo = hi) =>
                  /\ ~h.throws
                  /\ Len(h.labels) = 1
                  /\ h.counts = <<Len(data)>>
            /\ (Len(data) > 0 /\ lo < hi /\ b >= 1) =>
                  /\ ~h.throws
                  /\ Len(h.labels) = b
                  /\ Len(h.counts) = b
                  /\ \A i \in 1..b :
                        h.counts[i] =
                            Cardinality({k \in DOMAIN data : InBin(data[k], i, b, lo, hi)})
                  /\ \A k \in DOMAIN data :
                        Cardinality({i \in 1..b : InBin(data[k], i, b, lo, hi)}) = 1
                  /\ Sum(h.counts) = Len(data)
                  /\ h.labels[1][1] = 10 * lo
                  /\ h.labels[b][2] = 10 * hi
                  /\ \A i \in 1..(b - 1) : h.labels[i][2] = h.labels[i + 1][1]

\* Witness of C22: 0, MaxParam, 1 in two bins has the counts 2 and 1 when
\* MaxParam is above 2.
C22_Witness ==
    /\ HelperReturned("calculateHistogram")
    /\ helperCall.args = <<<<0, MaxParam, 1>>, 2>>
    /\ Len(helperCall.result.labels) = 2
    /\ helperCall.result.counts[1] + helperCall.result.counts[2] = 3
    /\ helperCall.result.counts[2] >= 1

\* The degenerate case of C22: three equal values, twenty bins asked, one bin.
C22_SingleBinReached ==
    /\ HelperReturned("calculateHistogram")
    /\ helperCall.args = <<<<1, 1, 1>>, 20>>
    /\ helperCall.result.counts = <<3>>
    /\ helperCall.result.labels = <<<<100>>>>

\* Outside the claim: binCount = 0 leaves one count, NaN, and no label.
C22_ZeroBinsReached ==
    /\ HelperReturned("calculateHistogram")
    /\ helperCall.args = <<<<0, 1>>, 0>>
    /\ helperCall.result.counts = <<NaN>>
    /\ helperCall.result.labels = <<>>

(***************************************************************************)
(* C23 - pearsonCorrelation.                                               *)
(***************************************************************************)
IsConstant(x) == \A k, m \in DOMAIN x : x[k] = x[m]

\* n * sum(x y) - sum(x) sum(y): n times the sum of products of deviations.
CoSum(x, y) == Len(x) * Sum([k \in DOMAIN x |-> x[k] * y[k]]) - Sum(x) * Sum(y)

\* C23: the result is 0 when n <= 1, when the lengths differ and when a
\* sequence is constant; otherwise its sign is that of the covariance and
\* its square is covariance^2 / (variance x * variance y); it is a number
\* in [-1, 1]; a non-constant sequence gives 1 against itself and -1
\* against its negation.
C23_Correlation ==
    HelperReturned("pearsonCorrelation") =>
        LET x == helperCall.args[1]
            y == helperCall.args[2]
            r == helperCall.result
        IN  /\ r.square[2] > 0
            /\ 0 <= r.square[1] /\ r.square[1] <= r.square[2]
            /\ r.sign \in {-1, 0, 1}
            /\ r.sign = 0 <=> r.square[1] = 0
            /\ (Len(x) <= 1 \/ Len(x) # Len(y)) => r = ZeroCorrelation
            /\ (Len(x) = Len(y) /\ (IsConstant(x) \/ IsConstant(y))) => r = ZeroCorrelation
            /\ (Len(x) = Len(y) /\ ~IsConstant(x) /\ ~IsConstant(y)) =>
                  /\ r.sign = SignOf(CoSum(x, y))
                  /\ SameFraction(r.square,
                                  <<CoSum(x, y) * CoSum(x, y), CoSum(x, x) * CoSum(y, y)>>)
            /\ (~IsConstant(x) /\ y = x) => (r.sign = 1 /\ r.square[1] = r.square[2])
            /\ (~IsConstant(x) /\ Len(x) = Len(y) /\ \A k \in DOMAIN x : y[k] = -x[k]) =>
                  (r.sign = -1 /\ r.square[1] = r.square[2])
            /\ helperCall.arrays = <<x, y>>

\* Witness of C23: 0, 1, 0 against 0, 0, 1 correlates at -1/2.
C23_Witness ==
    /\ HelperReturned("pearsonCorrelation")
    /\ helperCall.args = <<<<0, 1, 0>>, <<0, 0, 1>>>>
    /\ helperCall.result.sign = -1
    /\ SameFraction(helperCall.result.square, <<1, 4>>)

C23_SelfReached ==
    /\ HelperReturned("pearsonCorrelation")
    /\ helperCall.args = <<<<0, 1, MaxParam>>, <<0, 1, MaxParam>>>>
    /\ helperCall.result.sign = 1
    /\ SameFraction(helperCall.result.square, <<1, 1>>)

C23_NegationReached ==
    /\ HelperReturned("pearsonCorrelation")
    /\ helperCall.args = <<<<0, 1, MaxParam>>, <<0, -1, -MaxParam>>>>
    /\ helperCall.result.sign = -1
    /\ SameFraction(helperCall.result.square, <<1, 1>>)

C23_ConstantReached ==
    /\ HelperReturned("pearsonCorrelation")
    /\ helperCall.args = <<<<0, 1, MaxParam>>, <<1, 1, 1>>>>
    /\ helperCall.result = ZeroCorrelation

(***************************************************************************)
(* C24 - several dependencies on one predecessor.                          *)
(***************************************************************************)
\* Task j lists more than one dependency on its predecessor i.
ListsTwice(j, i) == i \in PredsOf(j) /\ Len(ListedOn(j, i)) > 1

\* C24: where a task lists several dependencies on one predecessor, each of
\* them is applied with its own type and lag: the task's earliest start is
\* at least the required start of each, and the predecessor's latest finish
\* at most the required finish of each.
C24_Claimed ==
    CpmSucceeded =>
        \A j \in ArgIds : \A i \in ArgNodes :
            ListsTwice(j, i) =>
                \A k \in DOMAIN ListedOn(j, i) :
                    /\ cpm.es[j] >= StartRule(ListedOn(j, i)[k], i, Scheduled(j))
                    /\ cpm.lf[i] <= FinishRule(ListedOn(j, i)[k], j, Scheduled(i))

\* What the code does instead: in both passes the first dependency a task
\* lists on a predecessor stands for all of them.
C24_FirstListedOnly ==
    CpmSucceeded =>
        /\ \A j \in ArgNodes \ {START} :
              cpm.es[j] = SetMax({0} \cup {StartRule(AppliedOn(j, i), i, Scheduled(j)) :
                                               i \in PredsOf(j)})
        /\ \A i \in ArgNodes \ {END} :
              cpm.lf[i] = SetMin({cpm.totalDuration} \cup
                                 {FinishRule(AppliedOn(j, i), j, Scheduled(i)) :
                                     j \in SuccsOf(i)})

\* The second task lists SS and then FS, both with lag 0, on the first, of
\* duration MaxDuration, and starts at 0.
C24_SecondIgnoredReached ==
    /\ CpmSucceeded
    /\ Len(argTasks) = 2
    /\ argTasks[1].dependencies = <<>>
    /\ argTasks[2].dependencies =
           <<Dep(argTasks[1].id, "SS", 0), Dep(argTasks[1].id, "FS", 0)>>
    /\ runDurations = <<MaxDuration, 1>>
    /\ cpm.es[argTasks[2].id] = 0
    /\ cpm.ef[argTasks[1].id] = MaxDuration
    /\ cpm.totalDuration = 1

(***************************************************************************)
(* C25 - no task of the list depends on itself.                            *)
(***************************************************************************)
\* Task t lists a dependency on the id p.
DependsOn(t, p) == \E d \in DOMAIN t.dependencies : t.dependencies[d].predecessorId = p

\* C25: after any sequence of add, edit, save and delete operations, no task
\* of the list has a dependency whose predecessorId is the task's own id.
C25_NoSelfDependency ==
    \A k \in DOMAIN tasks : ~DependsOn(tasks[k], tasks[k].id)

\* Two tasks were added, and the first was then edited and saved with a
\* dependency on the second.
C25_Witness ==
    /\ Len(tasks) = 2
    /\ idsUsed = 2
    /\ DependsOn(tasks[1], tasks[2].id)
    /\ editingTask = NoTask

(***************************************************************************)
(* C26 - totalDuration bounds every earliest finish.                       *)
(***************************************************************************)
\* C26: in every successful result totalDuration is at least the earliest
\* finish of every task.
C26_Claimed ==
    CpmSucceeded => \A n \in ArgIds : cpm.totalDuration >= cpm.ef[n]

\* totalDuration is the largest earliest finish among the tasks linked to
\* END (the tasks without successors), and 0 at least.
C26_EndPredecessorsOnly ==
    CpmSucceeded =>
        cpm.totalDuration = SetMax({0} \cup {cpm.ef[n] : n \in PredsOf(END)})

\* Two tasks, the second SS with lag 0 on the first: the first, of duration
\* MaxDuration, finishes after totalDuration.
C26_LateFinishReached ==
    /\ CpmSucceeded
    /\ Len(argTasks) = 2
    /\ argTasks[1].dependencies = <<>>
    /\ argTasks[2].dependencies = <<Dep(argTasks[1].id, "SS", 0)>>
    /\ runDurations = <<MaxDuration, 1>>
    /\ cpm.ef[argTasks[1].id] = MaxDuration
    /\ cpm.totalDuration = 1

(***************************************************************************)
(* C27 - slack is never negative.                                          *)
(***************************************************************************)
\* C27: in every successful result every task's slack (LS - ES) is
\* non-negative.
C27_Claimed ==
    CpmSucceeded => \A n \in ArgIds : Slack(n) >= 0

\* Whether slack can be negative while totalDuration bounds every earliest
\* finish.
C27_OnlyWithLateFinish ==
    (CpmSucceeded /\ \A n \in ArgIds : cpm.totalDuration >= cpm.ef[n]) =>
        \A n \in ArgIds : Slack(n) >= 0

\* Two tasks, the second SS with lag 0 on the first: the first, of duration
\* MaxDuration, has latest start 1 - MaxDuration and earliest start 0.
C27_NegativeSlackReached ==
    /\ CpmSucceeded
    /\ Len(argTasks) = 2
    /\ argTasks[1].dependencies = <<>>
    /\ argTasks[2].dependencies = <<Dep(argTasks[1].id, "SS", 0)>>
    /\ runDurations = <<MaxDuration, 1>>
    /\ cpm.es[argTasks[1].id] = 0
    /\ cpm.ls[argTasks[1].id] = 1 - MaxDuration
    /\ Slack(argTasks[1].id) < 0

(***************************************************************************)
(* C28 - every successful trial has a critical task.                       *)
(***************************************************************************)
\* C28: for a non-empty task set, every successful result of calculateCPM
\* marks at least one of the tasks critical.
C28_SomeTaskCritical ==
    (CpmSucceeded /\ Len(argTasks) > 0) =>
        cpm.criticalPathTasks \cap ArgIds # {}

\* A successful result on several tasks where some task is critical and some
\* task is not, and some task finishes after totalDuration.
C28_Witness ==
    /\ CpmSucceeded
    /\ Len(argTasks) > 1
    /\ cpm.criticalPathTasks \cap ArgIds # {}
    /\ ArgIds \ cpm.criticalPathTasks # {}
    /\ \E n \in ArgIds : cpm.ef[n] > cpm.totalDuration

\* Some task linked to END finishes exactly at totalDuration.
C28_EndPredecessorCritical ==
    (CpmSucceeded /\ Len(argTasks) > 0) =>
        \E n \in PredsOf(END) \cap ArgIds :
            /\ cpm.ef[n] = cpm.totalDuration
            /\ n \in cpm.criticalPathTasks

\* In runMonteCarloSimulation on a non-empty task list every recorded run has
\* a critical task, and the criticality indices returned are not all zero.
C28_IndexNotAllZero ==
    Len(argTasks) > 0 =>
        /\ \A k \in DOMAIN simulationRuns :
              simulationRuns[k].criticalPathTasks \cap ArgIds # {}
        /\ (pc = "returned" /\ ~mcResult.analysis.isNull) =>
              \E idx \in DOMAIN argTasks :
                  mcResult.analysis.criticalityIndex[idx][1] > 0

\* runMonteCarloSimulation returned criticality indices for several tasks,
\* one of them zero.
C28_IndexReached ==
    /\ pc = "returned"
    /\ ~mcResult.analysis.isNull
    /\ Len(argTasks) > 1
    /\ \E idx \in DOMAIN argTasks : mcResult.analysis.criticalityIndex[idx][1] = 0

(***************************************************************************)
(* C29 - no dependency names a task that is not in the list.               *)
(***************************************************************************)
\* Dependency d names START or a task of the list ts.
Resolves(d, ts) == d.predecessorId \in {START} \cup TaskIdsOf(ts)

\* C29: after any interleaving of add, start-edit, save-edit, cancel-edit and
\* delete, every dependency of every task names START or a task currently in
\* the list.
C29_Claimed ==
    \A k \in DOMAIN tasks : \A d \in DOMAIN tasks[k].dependencies :
        Resolves(tasks[k].dependencies[d], tasks)

\* The rows of the form still name a task after it was deleted from the list
\* while another task was being edited.
C29_StaleRowsReached ==
    /\ editingTask # NoTask
    /\ editingTask.id \in TaskIdsOf(tasks)
    /\ \E r \in DOMAIN dependencies : dependencies[r].predecessorId = FormIdPool[1]
    /\ FormIdPool[1] \notin TaskIdsOf(tasks)

\* The second task was saved, after the first was deleted, with a dependency
\* on the first.
C29_DanglingReached ==
    /\ Len(tasks) = 1
    /\ tasks[1].id = FormIdPool[2]
    /\ editingTask = NoTask
    /\ DependsOn(tasks[1], FormIdPool[1])

\* deleteTask itself leaves no reference to the deleted task in the list.
C29_DeleteCleansList ==
    [][deleteTask =>
          \A k \in DOMAIN tasks' :
              TaskIdsOf(tasks) \ TaskIdsOf(tasks') \subseteq
                  {p \in TaskIdsOf(tasks) : ~DependsOn(tasks'[k], p)}]_vars

(***************************************************************************)
(* C30 - the results shown belong to the task list shown.                  *)
(***************************************************************************)
\* The condition under which App renders SimulationResults.
ResultsDisplayed == ~isLoading /\ simulationResults # <<>> /\ ~analysis.isNull

\* C30: whenever results are displayed they were computed from the task
\* list currently held: the per-task analysis has one entry per current
\* task, and every task a run marks critical is a task of the list.
C30_Claimed ==
    ResultsDisplayed =>
        /\ Len(analysis.criticalityIndex) = Len(tasks)
        /\ \A k \in DOMAIN simulationResults :
              simulationResults[k].criticalPathTasks \subseteq TaskIdsOf(tasks)

\* Results computed for one task are displayed with a list of two tasks.
C30_StaleAfterSaveReached ==
    /\ ResultsDisplayed
    /\ Len(tasks) = 2
    /\ Len(analysis.criticalityIndex) = 1

\* Results are displayed with an empty task list.
C30_StaleAfterDeleteReached ==
    /\ ResultsDisplayed
    /\ tasks = <<>>

\* The callback is pending with the task list it captured while the list
\* held by the application has changed.
C30_PendingWithChangedListReached ==
    /\ timer.set
    /\ isLoading
    /\ pc = "idle"
    /\ timer.tasks # tasks

\* Every step that changes the task list clears the results, and results
\* are set only by the completion of the callback.
C30_ChangeClearsResults ==
    [][/\ tasks' # tasks => (simulationResults' = <<>> /\ analysis' = NoAnalysis)
       /\ (simulationResults' # simulationResults /\ simulationResults' # <<>>)
             => (pc = "returned" /\ pc' = "idle")]_vars

====
